---- MODULE Spec2Model ----
(***************************************************************************)
(* A model of scripts/db_migrator.py (class DBMigrator): the version chain *)
(* driver migrate(), the per-version handlers, the migrate_* steps they    *)
(* call and the common post-migration pass, over the four redis stores the *)
(* migrator is connected to.                                               *)
(*                                                                         *)
(* A store maps a key (the tuple of the parts of its separator-joined      *)
(* name, table first) to a hash (a function from field names to strings).  *)
(* A redis key with no field does not exist.  Every step is an operator    *)
(* from the stores at its entry to the sequence of redis commands it       *)
(* issues, so that a handler can be taken whole or cut after any command.  *)
(*                                                                         *)
(* The last part models clear/portchannel.py: the command that clears the  *)
(* LACP statistics counters of one LAG, one LAG member or every LAG of the *)
(* state store.                                                            *)
(***************************************************************************)
EXTENDS Integers, Sequences, FiniteSets, TLC

VARIABLES
    db,               \* [configDB, appDB, stateDB, loglevelDB]: the four stores
    asic_type,        \* DBMigrator.asic_type
    hwsku,            \* DBMigrator.hwsku
    config_src_data,  \* DBMigrator.config_src_data; <<>> is None
    init_db,          \* INIT_CFG_FILE: whether open/json.load succeed, and the tables read
    pc,               \* position of the process: idle | loop | common | done | raised | crashed
                      \* (clear portchannel statistics: idle | raised)
    version,          \* local variable `version` of migrate()
    next_version,     \* local variable `next_version` of migrate()
    handlers,         \* operations invoked so far by the current migrate(), in order
    mlnx_calls,       \* sub-migrator calls made by the last handler, with their results
    failed,           \* handlers of the current migrate() in which a sub-migrator call failed
    pre,              \* the stores as they were when the last operation started
    issued,           \* the redis commands the last operation issued, in order
    commons,          \* number of common passes run by the current migrate()
    invocations,      \* number of migrate() invocations started
    start_marker,     \* what get_version() returned when the current migrate() started
    argv,             \* clear portchannel statistics: the arguments of the last invocation
    commands,         \* the commands its run_command calls were given, with their results
    echoed,           \* the lines it printed with click.echo
    faults            \* the store operations that failed in the last direct call of a step

vars == <<db, asic_type, hwsku, config_src_data, init_db, pc, version, next_version,
          handlers, mlnx_calls, failed, pre, issued, commons, invocations, start_marker,
          argv, commands, echoed, faults>>

env == <<asic_type, hwsku, config_src_data, init_db>>

cli == <<argv, commands, echoed>>

\* migrate() invocations in one behaviour
MaxInvocations == 2

\* direct calls of one step or handler in one behaviour
MaxCalls == 2

-----------------------------------------------------------------------------
(* Generic helpers *)

EmptyHash == <<>>

Restrict(h, S) == [f \in S |-> h[f]]

Without(h, f) == Restrict(h, DOMAIN h \ {f})

RECURSIVE SetToSeq(_)
SetToSeq(S) ==
    IF S = {} THEN <<>>
    ELSE LET e == CHOOSE e \in S : TRUE IN <<e>> \o SetToSeq(S \ {e})

FlatMap(Op(_), s) ==
    LET f[i \in 0..Len(s)] == IF i = 0 THEN <<>> ELSE f[i-1] \o Op(s[i])
    IN f[Len(s)]

\* Python's dict.get(k): the set holding the value, empty for None
dict_get(d, k) == IF k \in DOMAIN d THEN {d[k]} ELSE {}

-----------------------------------------------------------------------------
(* Redis commands and their effect on the stores *)

StoreNames == {"configDB", "appDB", "stateDB", "loglevelDB"}

hmset(store, key, hash) == [store |-> store, cmd |-> "hmset", key |-> key, hash |-> hash]

hset(store, key, field, value) == hmset(store, key, [f \in {field} |-> value])

hdel(store, key, field) == [store |-> store, cmd |-> "hdel", key |-> key, hash |-> [f \in {field} |-> ""]]

del(store, key) == [store |-> store, cmd |-> "del", key |-> key, hash |-> EmptyHash]

ApplyStore(s, c) ==
    IF c.cmd = "hmset" THEN
        [k \in DOMAIN s \cup {c.key} |->
            IF k = c.key
            THEN c.hash @@ (IF k \in DOMAIN s THEN s[k] ELSE EmptyHash)
            ELSE s[k]]
    ELSE IF c.cmd = "hdel" THEN
        IF c.key \notin DOMAIN s THEN s
        ELSE LET left == DOMAIN s[c.key] \ DOMAIN c.hash IN
             IF left = {} THEN [k \in DOMAIN s \ {c.key} |-> s[k]]
             ELSE [s EXCEPT ![c.key] = Restrict(s[c.key], left)]
    ELSE [k \in DOMAIN s \ {c.key} |-> s[k]]

Apply(d, c) == [d EXCEPT ![c.store] = ApplyStore(d[c.store], c)]

ApplyAll(d, w) ==
    LET f[i \in 0..Len(w)] == IF i = 0 THEN d ELSE Apply(f[i-1], w[i])
    IN f[Len(w)]

-----------------------------------------------------------------------------
(* Results of running a piece of code: the stores it leaves, the commands  *)
(* it issued and whether it ended by raising.                              *)

Ok(d) == [d |-> d, w |-> <<>>, exc |-> FALSE]

Emit(d, w) == [d |-> ApplyAll(d, w), w |-> w, exc |-> FALSE]

Raise(d) == [d |-> d, w |-> <<>>, exc |-> TRUE]

\* r, then F on the stores r leaves, unless r raised
AndThen(r, F(_)) ==
    IF r.exc THEN r
    ELSE LET s == F(r.d) IN [d |-> s.d, w |-> r.w \o s.w, exc |-> s.exc]

\* a `for x in xs:` loop whose body is Body(d, x)
ForEach(d, xs, Body(_, _)) ==
    LET f[i \in 0..Len(xs)] ==
            IF i = 0 THEN Ok(d)
            ELSE LET prev == f[i-1] IN
                 IF prev.exc THEN prev
                 ELSE LET s == Body(prev.d, xs[i])
                      IN [d |-> s.d, w |-> prev.w \o s.w, exc |-> s.exc]
    IN f[Len(xs)]

-----------------------------------------------------------------------------
(* The store clients (swsscommon ConfigDBConnector / SonicV2Connector)     *)

\* "NULL": "NULL" is the placeholder of an entry without fields
raw_to_typed(raw) == Restrict(raw, DOMAIN raw \ {"NULL"})

typed_to_raw(data) == IF DOMAIN data = {} THEN [NULL |-> "NULL"] ELSE data

get_all(d, store, key) == IF key \in DOMAIN d[store] THEN d[store][key] ELSE EmptyHash

exists(d, store, key) == key \in DOMAIN d[store]

\* client.get(db, key, field): the set holding the value, empty for None
get(d, store, key, field) == dict_get(get_all(d, store, key), field)

hexists(d, store, key, field) == field \in DOMAIN get_all(d, store, key)

\* keys of a table, each without the table name, in the order redis lists them
table_keys(d, store, table) ==
    SetToSeq({Tail(k) : k \in {k \in DOMAIN d[store] : k[1] = table /\ Len(k) > 1}})

get_keys(d, store, table) == table_keys(d, store, table)

get_entry(d, store, table, key) == raw_to_typed(get_all(d, store, <<table>> \o key))

get_table(d, store, table) ==
    [k \in {Tail(k) : k \in {k \in DOMAIN d[store] : k[1] = table /\ Len(k) > 1}} |->
        get_entry(d, store, table, k)]

\* set_entry(table, key, data) with data a dict: hmset, then hdel of every field
\* of the original entry that data does not have
set_entry(d, store, table, key, data) ==
    LET k == <<table>> \o key
        raw == typed_to_raw(data)
        gone == SetToSeq(DOMAIN get_all(d, store, k) \ DOMAIN raw)
    IN Emit(d, <<hmset(store, k, raw)>> \o FlatMap(LAMBDA f : <<hdel(store, k, f)>>, gone))

\* set_entry(table, key, None)
set_entry_None(d, store, table, key) == Emit(d, <<del(store, <<table>> \o key)>>)

\* set_entry(table, key, opt) with opt the result of a dict.get
set_entry_opt(d, store, table, key, opt) ==
    IF opt = {} THEN set_entry_None(d, store, table, key)
    ELSE set_entry(d, store, table, key, CHOOSE x \in opt : TRUE)

mod_entry(d, store, table, key, data) ==
    Emit(d, <<hmset(store, <<table>> \o key, typed_to_raw(data))>>)

delete_table(d, store, table) ==
    Emit(d, FlatMap(LAMBDA k : <<del(store, <<table>> \o k)>>, table_keys(d, store, table)))

set(d, store, key, field, value) == Emit(d, <<hset(store, key, field, value)>>)

delete(d, store, key) == Emit(d, <<del(store, key)>>)

-----------------------------------------------------------------------------
(* The version marker *)

CURRENT_VERSION == "version_202505_01"

TABLE_NAME == "VERSIONS"

TABLE_KEY == "DATABASE"

TABLE_FIELD == "VERSION"

\* version[TABLE_FIELD] on an entry that has fields but not this one: KeyError
get_version_raises(d) ==
    LET v == get_entry(d, "configDB", TABLE_NAME, <<TABLE_KEY>>) IN
    DOMAIN v # {} /\ TABLE_FIELD \notin DOMAIN v

get_version(d) ==
    LET v == get_entry(d, "configDB", TABLE_NAME, <<TABLE_KEY>>) IN
    IF DOMAIN v # {} /\ v[TABLE_FIELD] # "" THEN v[TABLE_FIELD]
    ELSE "version_unknown"

\* set_version writing its argument as it is, without the default
set_version_no_default(d, v) ==
    set_entry(d, "configDB", TABLE_NAME, <<TABLE_KEY>>, [f \in {TABLE_FIELD} |-> v])

\* v is "None" when the argument is left out (version=None)
set_version(d, v) ==
    LET version_arg == IF v = "None" \/ v = "" THEN CURRENT_VERSION ELSE v IN
    set_entry(d, "configDB", TABLE_NAME, <<TABLE_KEY>>, [f \in {TABLE_FIELD} |-> version_arg])

-----------------------------------------------------------------------------
(* Steps, in the order of the source *)

\* migrate_pfc_wd_table without its delete_table
migrate_pfc_wd_table_keep(d) ==
    LET data == get_table(d, "configDB", "PFC_WD_TABLE") IN
    ForEach(d, table_keys(d, "configDB", "PFC_WD_TABLE"),
            LAMBDA dd, key : set_entry(dd, "configDB", "PFC_WD", key, data[key]))

migrate_pfc_wd_table(d) ==
    LET data == get_table(d, "configDB", "PFC_WD_TABLE")
        copied == ForEach(d, table_keys(d, "configDB", "PFC_WD_TABLE"),
                          LAMBDA dd, key : set_entry(dd, "configDB", "PFC_WD", key, data[key]))
    IN AndThen(copied, LAMBDA dd : delete_table(dd, "configDB", "PFC_WD_TABLE"))

is_ip_prefix_in_key(key) == Len(key) > 1

if_tables == <<"INTERFACE", "PORTCHANNEL_INTERFACE", "VLAN_INTERFACE", "LOOPBACK_INTERFACE">>

\* if_db: the keys without IP prefix collected by the first loop plus the names
\* appended by the second, which are the prefix-less keys the tables hold by then
interface_if_db(d) ==
    UNION {{k[1] : k \in {k \in DOMAIN get_table(d, "configDB", if_tables[i]) :
                              ~is_ip_prefix_in_key(k)}} : i \in 1..Len(if_tables)}

\* migrate_interface_table without the `key[0] in if_db` test
migrate_interface_table_overwrite(d) ==
    ForEach(d, if_tables, LAMBDA d1, table :
        LET data == get_table(d1, "configDB", table) IN
        ForEach(d1, table_keys(d1, "configDB", table), LAMBDA d2, key :
            IF ~is_ip_prefix_in_key(key) THEN Ok(d2)
            ELSE set_entry(d2, "configDB", table, <<key[1]>>, data[key])))

migrate_interface_table(d) ==
    ForEach(d, if_tables, LAMBDA d1, table :
        LET data == get_table(d1, "configDB", table) IN
        ForEach(d1, table_keys(d1, "configDB", table), LAMBDA d2, key :
            IF ~is_ip_prefix_in_key(key) \/ key[1] \in interface_if_db(d2) THEN Ok(d2)
            ELSE set_entry(d2, "configDB", table, <<key[1]>>, data[key])))

\* device_info.is_warm_restart_enabled(container_name)
is_warm_restart_enabled(d, container_name) ==
    \/ get(d, "stateDB", <<"WARM_RESTART_ENABLE_TABLE", "system">>, "enable") = {"true"}
    \/ get(d, "stateDB", <<"WARM_RESTART_ENABLE_TABLE", container_name>>, "enable") = {"true"}

\* int() and str() on the port counts the model uses
CountStr == <<"1", "2", "3", "4", "5", "6", "7", "8", "9", "10">>

str(n) == IF n = 0 THEN "0" ELSE CountStr[n]

IsCount(s) == s = "0" \/ \E n \in 1..Len(CountStr) : CountStr[n] = s

int(s) == IF s = "0" THEN 0 ELSE CHOOSE n \in 1..Len(CountStr) : CountStr[n] = s

s6100_entries ==
    [Ethernet64 |-> [alias |-> "tenGigE1/1", description |-> "tenGigE1/1", index |-> "64",
                     lanes |-> "129", mtu |-> "9100", pfc_asym |-> "off", speed |-> "10000"],
     Ethernet65 |-> [alias |-> "tenGigE1/2", description |-> "tenGigE1/2", index |-> "65",
                     lanes |-> "131", mtu |-> "9100", pfc_asym |-> "off", speed |-> "10000"]]

s6100_fields == <<"alias", "description", "index", "lanes", "mtu", "pfc_asym", "speed">>

\* migrate_mgmt_ports_on_s6100 counting both ports as added on every run
migrate_mgmt_ports_on_s6100_recount(d) ==
    IF ~is_warm_restart_enabled(d, "swss") THEN Ok(d)
    ELSE
    LET portCount == get(d, "appDB", <<"PORT_TABLE", "PortConfigDone">>, "count") IN
    IF portCount = {""} THEN Ok(d)
    ELSE IF portCount = {} \/ ~IsCount(CHOOSE c \in portCount : TRUE) THEN Raise(d)
    ELSE set(d, "appDB", <<"PORT_TABLE", "PortConfigDone">>, "count",
             str(int(CHOOSE c \in portCount : TRUE) + 2))

migrate_mgmt_ports_on_s6100(d) ==
    IF ~is_warm_restart_enabled(d, "swss") THEN Ok(d)
    ELSE
    LET ports == ForEach(d, <<"Ethernet64", "Ethernet65">>, LAMBDA d1, portName :
            IF DOMAIN get_entry(d1, "configDB", "PORT", <<portName>>) # {} THEN Ok(d1)
            ELSE
            LET key == <<"PORT_TABLE", portName>>
                r1 == set_entry(d1, "configDB", "PORT", <<portName>>, s6100_entries[portName])
                r2 == AndThen(r1, LAMBDA d2 : ForEach(d2, s6100_fields, LAMBDA d3, field :
                          set(d3, "appDB", key, field, s6100_entries[portName][field])))
            IN AndThen(r2, LAMBDA d2 : set(d2, "appDB", key, "admin_status", "down")))
        \* added_ports: the ports of entries that had no PORT entry
        added_ports == Cardinality({p \in {"Ethernet64", "Ethernet65"} :
                          DOMAIN get_entry(d, "configDB", "PORT", <<p>>) = {}})
    IN AndThen(ports, LAMBDA d1 :
        LET portCount == get(d1, "appDB", <<"PORT_TABLE", "PortConfigDone">>, "count") IN
        IF portCount = {""} THEN Ok(d1)
        \* int(None) and int() of a non-number raise
        ELSE IF portCount = {} \/ ~IsCount(CHOOSE c \in portCount : TRUE) THEN Raise(d1)
        ELSE set(d1, "appDB", <<"PORT_TABLE", "PortConfigDone">>, "count",
                 str(int(CHOOSE c \in portCount : TRUE) + added_ports)))

\* lo_addr_to_int.get(lo_addr): a later key of the same address replaces an earlier one
lo_addr_to_int(d, addr) ==
    LET ks == table_keys(d, "configDB", "LOOPBACK_INTERFACE")
        hit == {i \in 1..Len(ks) : Len(ks[i]) > 1 /\ ks[i][2] = addr}
    IN IF hit = {} THEN {} ELSE {ks[CHOOSE i \in hit : \A j \in hit : j <= i][1]}

\* if_db of migrate_intf_table: the names of the rows without address, those found
\* by the first loop and those written by the second
intf_if_db(d) == {k[1] : k \in {k \in DOMAIN get_table(d, "appDB", "INTF_TABLE") : Len(k) = 1}}

migrate_intf_table(d) ==
    LET lo_data == table_keys(d, "appDB", "INTF_TABLE")
        first == ForEach(d, lo_data, LAMBDA d1, row :
            IF row[1] # "lo" THEN Ok(d1)
            ELSE
            LET lo_row == <<"INTF_TABLE">> \o row
                deleted == delete(d1, "appDB", lo_row)
            IN
            \* 'INTF_TABLE:lo'.split('INTF_TABLE:lo:')[1] raises IndexError
            IF Len(row) = 1 THEN AndThen(deleted, Raise)
            ELSE
            LET lo_name_configdb == lo_addr_to_int(d1, row[2])
                name == IF lo_name_configdb = {} \/ lo_name_configdb = {""}
                        THEN "Loopback0" ELSE CHOOSE n \in lo_name_configdb : TRUE
            IN AndThen(deleted, LAMBDA d2 :
                   set(d2, "appDB", <<"INTF_TABLE", name>> \o Tail(row), "NULL", "NULL")))
    IN AndThen(first, LAMBDA d1 :
        ForEach(d1, table_keys(d1, "appDB", "INTF_TABLE"), LAMBDA d2, key :
            IF key[1] \in intf_if_db(d2) THEN Ok(d2)
            ELSE set(d2, "appDB", <<"INTF_TABLE", key[1]>>, "NULL", "NULL")))

migrate_copp_table(d) ==
    ForEach(d, table_keys(d, "appDB", "COPP_TABLE"), LAMBDA d1, k :
        delete(d1, "appDB", <<"COPP_TABLE">> \o k))

\* migrate_feature_table replacing the FEATURE entry by the CONTAINER_FEATURE one
migrate_feature_table_replace(d) ==
    LET feature_table == get_table(d, "configDB", "FEATURE")
        renamed == ForEach(d, table_keys(d, "configDB", "FEATURE"), LAMBDA d1, feature :
            LET config == feature_table[feature] IN
            IF "status" \notin DOMAIN config THEN Ok(d1)
            ELSE set_entry(d1, "configDB", "FEATURE", feature,
                           [f \in {"state"} |-> config["status"]] @@ Without(config, "status")))
    IN AndThen(renamed, LAMBDA d1 :
        LET container_feature_table == get_table(d1, "configDB", "CONTAINER_FEATURE") IN
        ForEach(d1, table_keys(d1, "configDB", "CONTAINER_FEATURE"), LAMBDA d2, feature :
            AndThen(set_entry(d2, "configDB", "FEATURE", feature, container_feature_table[feature]),
                    LAMBDA d3 : set_entry_None(d3, "configDB", "CONTAINER_FEATURE", feature))))

migrate_feature_table(d) ==
    LET feature_table == get_table(d, "configDB", "FEATURE")
        renamed == ForEach(d, table_keys(d, "configDB", "FEATURE"), LAMBDA d1, feature :
            LET config == feature_table[feature] IN
            IF "status" \notin DOMAIN config THEN Ok(d1)
            ELSE set_entry(d1, "configDB", "FEATURE", feature,
                           [f \in {"state"} |-> config["status"]] @@ Without(config, "status")))
    IN AndThen(renamed, LAMBDA d1 :
        LET container_feature_table == get_table(d1, "configDB", "CONTAINER_FEATURE") IN
        ForEach(d1, table_keys(d1, "configDB", "CONTAINER_FEATURE"), LAMBDA d2, feature :
            AndThen(mod_entry(d2, "configDB", "FEATURE", feature, container_feature_table[feature]),
                    LAMBDA d3 : set_entry_None(d3, "configDB", "CONTAINER_FEATURE", feature))))

migrate_config_db_port_table_for_auto_neg(d) ==
    LET port_table == get_table(d, "configDB", "PORT") IN
    ForEach(d, table_keys(d, "configDB", "PORT"), LAMBDA d1, key :
        LET value == port_table[key]
            k == <<"PORT">> \o key
        IN
        IF "autoneg" \notin DOMAIN value THEN Ok(d1)
        ELSE IF value["autoneg"] = "1" THEN
            AndThen(set(d1, "configDB", k, "autoneg", "on"), LAMBDA d2 :
                IF "speed" \in DOMAIN value /\ "adv_speeds" \notin DOMAIN value
                THEN set(d2, "configDB", k, "adv_speeds", value["speed"])
                ELSE Ok(d2))
        ELSE IF value["autoneg"] = "0" THEN set(d1, "configDB", k, "autoneg", "off")
        ELSE Ok(d1))

migrate_config_db_port_table_for_dhcp_rate_limit(d) ==
    LET port_table == get_table(d, "configDB", "PORT") IN
    ForEach(d, table_keys(d, "configDB", "PORT"), LAMBDA d1, p_key :
        LET p_value == port_table[p_key] IN
        IF "dhcp_rate_limit" \in DOMAIN p_value
        THEN set(d1, "configDB", <<"PORT">> \o p_key, "dhcp_rate_limit", p_value["dhcp_rate_limit"])
        ELSE set(d1, "configDB", <<"PORT">> \o p_key, "dhcp_rate_limit", "300"))

\* table_name + "_TABLE"
app_table_name(table_name) ==
    CASE table_name = "VXLAN_TUNNEL" -> "VXLAN_TUNNEL_TABLE"
      [] table_name = "VXLAN_TUNNEL_MAP" -> "VXLAN_TUNNEL_MAP_TABLE"
      [] table_name = "BUFFER_POOL" -> "BUFFER_POOL_TABLE"
      [] table_name = "BUFFER_PROFILE" -> "BUFFER_PROFILE_TABLE"
      [] table_name = "BUFFER_PG" -> "BUFFER_PG_TABLE"
      [] table_name = "BUFFER_QUEUE" -> "BUFFER_QUEUE_TABLE"
      [] table_name = "BUFFER_PORT_INGRESS_PROFILE_LIST" -> "BUFFER_PORT_INGRESS_PROFILE_LIST_TABLE"
      [] table_name = "BUFFER_PORT_EGRESS_PROFILE_LIST" -> "BUFFER_PORT_EGRESS_PROFILE_LIST_TABLE"

\* configDB.keys(CONFIG_DB, "VXLAN_TUNNEL*")
vxlan_keys(d) ==
    SetToSeq({k \in DOMAIN d["configDB"] : k[1] \in {"VXLAN_TUNNEL", "VXLAN_TUNNEL_MAP"}})

migrate_vxlan_config(d) ==
    ForEach(d, vxlan_keys(d), LAMBDA d1, vxlan_table :
        LET vxlan_map_mapping == get_all(d1, "configDB", vxlan_table)
            app_key == <<app_table_name(vxlan_table[1])>> \o Tail(vxlan_table)
        IN ForEach(d1, SetToSeq(DOMAIN vxlan_map_mapping), LAMBDA d2, field :
               IF hexists(d2, "appDB", app_key, field) THEN Ok(d2)
               ELSE set(d2, "appDB", app_key, field, vxlan_map_mapping[field])))

\* `not self.config_src_data or table not in self.config_src_data`
no_config_src(table) == config_src_data = <<>> \/ table \notin DOMAIN config_src_data

\* migrate_restapi without the `if not config` / `if not certs` tests
migrate_restapi_clobber(d) ==
    IF no_config_src("RESTAPI") THEN Ok(d)
    ELSE
    LET restapi_data == config_src_data["RESTAPI"] IN
    AndThen(set_entry_opt(d, "configDB", "RESTAPI", <<"config">>, dict_get(restapi_data, "config")),
            LAMBDA d1 :
                set_entry_opt(d1, "configDB", "RESTAPI", <<"certs">>, dict_get(restapi_data, "certs")))

migrate_restapi(d) ==
    IF no_config_src("RESTAPI") THEN Ok(d)
    ELSE
    LET restapi_data == config_src_data["RESTAPI"]
        r1 == IF DOMAIN get_entry(d, "configDB", "RESTAPI", <<"config">>) = {}
              THEN set_entry_opt(d, "configDB", "RESTAPI", <<"config">>, dict_get(restapi_data, "config"))
              ELSE Ok(d)
    IN AndThen(r1, LAMBDA d1 :
        IF DOMAIN get_entry(d1, "configDB", "RESTAPI", <<"certs">>) = {}
        THEN set_entry_opt(d1, "configDB", "RESTAPI", <<"certs">>, dict_get(restapi_data, "certs"))
        ELSE Ok(d1))

migrate_telemetry(d) ==
    IF no_config_src("TELEMETRY") THEN Ok(d)
    ELSE
    LET telemetry_data == config_src_data["TELEMETRY"]
        r1 == IF DOMAIN get_entry(d, "configDB", "TELEMETRY", <<"gnmi">>) = {}
              THEN set_entry_opt(d, "configDB", "TELEMETRY", <<"gnmi">>, dict_get(telemetry_data, "gnmi"))
              ELSE Ok(d)
    IN AndThen(r1, LAMBDA d1 :
        IF DOMAIN get_entry(d1, "configDB", "TELEMETRY", <<"certs">>) = {}
        THEN set_entry_opt(d1, "configDB", "TELEMETRY", <<"certs">>, dict_get(telemetry_data, "certs"))
        ELSE Ok(d1))

\* migrate_gnmi falling back to TELEMETRY when the snapshot has no GNMI table
migrate_gnmi_fallback_without_table(d) ==
    LET gnmi == get_entry(d, "configDB", "GNMI", <<"gnmi">>)
        certs == get_entry(d, "configDB", "GNMI", <<"certs">>)
    IN
    IF DOMAIN gnmi # {} /\ DOMAIN certs # {} THEN Ok(d)
    ELSE IF config_src_data # <<>> /\ "GNMI" \in DOMAIN config_src_data THEN
        LET gnmi_data == config_src_data["GNMI"]
            r1 == IF "gnmi" \in DOMAIN gnmi_data
                  THEN set_entry(d, "configDB", "GNMI", <<"gnmi">>, gnmi_data["gnmi"])
                  ELSE Ok(d)
        IN AndThen(r1, LAMBDA d1 :
            IF "certs" \in DOMAIN gnmi_data
            THEN set_entry(d1, "configDB", "GNMI", <<"certs">>, gnmi_data["certs"])
            ELSE Ok(d1))
    ELSE
        LET t_gnmi == get_entry(d, "configDB", "TELEMETRY", <<"gnmi">>)
            r1 == IF DOMAIN t_gnmi # {}
                  THEN set_entry(d, "configDB", "GNMI", <<"gnmi">>, t_gnmi)
                  ELSE Ok(d)
        IN AndThen(r1, LAMBDA d1 :
            LET t_certs == get_entry(d1, "configDB", "TELEMETRY", <<"certs">>) IN
            IF DOMAIN t_certs # {}
            THEN set_entry(d1, "configDB", "GNMI", <<"certs">>, t_certs)
            ELSE Ok(d1))

migrate_gnmi(d) ==
    LET gnmi == get_entry(d, "configDB", "GNMI", <<"gnmi">>)
        certs == get_entry(d, "configDB", "GNMI", <<"certs">>)
    IN
    IF DOMAIN gnmi # {} /\ DOMAIN certs # {} THEN Ok(d)
    ELSE IF config_src_data # <<>> THEN
        IF "GNMI" \notin DOMAIN config_src_data THEN Ok(d)
        ELSE
        LET gnmi_data == config_src_data["GNMI"]
            r1 == IF "gnmi" \in DOMAIN gnmi_data
                  THEN set_entry(d, "configDB", "GNMI", <<"gnmi">>, gnmi_data["gnmi"])
                  ELSE Ok(d)
        IN AndThen(r1, LAMBDA d1 :
            IF "certs" \in DOMAIN gnmi_data
            THEN set_entry(d1, "configDB", "GNMI", <<"certs">>, gnmi_data["certs"])
            ELSE Ok(d1))
    ELSE
        LET t_gnmi == get_entry(d, "configDB", "TELEMETRY", <<"gnmi">>)
            r1 == IF DOMAIN t_gnmi # {}
                  THEN set_entry(d, "configDB", "GNMI", <<"gnmi">>, t_gnmi)
                  ELSE Ok(d)
        IN AndThen(r1, LAMBDA d1 :
            LET t_certs == get_entry(d1, "configDB", "TELEMETRY", <<"certs">>) IN
            IF DOMAIN t_certs # {}
            THEN set_entry(d1, "configDB", "GNMI", <<"certs">>, t_certs)
            ELSE Ok(d1))

migrate_console_switch(d) ==
    IF no_config_src("CONSOLE_SWITCH") THEN Ok(d)
    ELSE
    LET console_switch_data == config_src_data["CONSOLE_SWITCH"] IN
    IF DOMAIN get_entry(d, "configDB", "CONSOLE_SWITCH", <<"console_mgmt">>) = {}
    THEN set_entry_opt(d, "configDB", "CONSOLE_SWITCH", <<"console_mgmt">>,
                       dict_get(console_switch_data, "console_mgmt"))
    ELSE Ok(d)

\* str(dict.get(field)) as typed_to_raw writes it: a missing field is written as "None"
str_get(data, field) == IF field \in DOMAIN data THEN data[field] ELSE "None"

\* migrate_device_metadata without the test of the snapshot
migrate_device_metadata_unguarded(d) ==
    LET metadata == get_entry(d, "configDB", "DEVICE_METADATA", <<"localhost">>) IN
    IF no_config_src("DEVICE_METADATA") THEN
        IF "synchronous_mode" \in DOMAIN metadata THEN Raise(d)
        ELSE set_entry(d, "configDB", "DEVICE_METADATA", <<"localhost">>,
                       [f \in {"synchronous_mode"} |-> "None"] @@ metadata)
    ELSE Ok(d)

migrate_device_metadata(d) ==
    IF no_config_src("DEVICE_METADATA") THEN Ok(d)
    ELSE
    LET metadata == get_entry(d, "configDB", "DEVICE_METADATA", <<"localhost">>) IN
    \* self.config_src_data["DEVICE_METADATA"]["localhost"] raises KeyError
    IF "localhost" \notin DOMAIN config_src_data["DEVICE_METADATA"] THEN Raise(d)
    ELSE
    LET device_metadata_data == config_src_data["DEVICE_METADATA"]["localhost"] IN
    IF "synchronous_mode" \in DOMAIN metadata THEN Ok(d)
    ELSE set_entry(d, "configDB", "DEVICE_METADATA", <<"localhost">>,
                   [f \in {"synchronous_mode"} |-> str_get(device_metadata_data, "synchronous_mode")]
                       @@ metadata)

\* dst_ip.split(",") on the addresses the model uses
split_comma(s) ==
    CASE s = "10.1.0.32,10.1.0.33" -> <<"10.1.0.32", "10.1.0.33">>
      [] OTHER -> <<s>>

migrate_ipinip_tunnel(d) ==
    LET tunnel_decap_table == get_table(d, "appDB", "TUNNEL_DECAP_TABLE") IN
    ForEach(d, table_keys(d, "appDB", "TUNNEL_DECAP_TABLE"), LAMBDA d1, key :
        LET attrs0 == tunnel_decap_table[key]
            dst_ip == dict_get(attrs0, "dst_ip") \ {""}
            src_ip == dict_get(attrs0, "src_ip") \ {""}
            attrs == Restrict(attrs0, DOMAIN attrs0 \ {"dst_ip", "src_ip"})
            terms == IF dst_ip = {} THEN Ok(d1)
                     ELSE ForEach(d1, split_comma(CHOOSE x \in dst_ip : TRUE), LAMBDA d2, dip :
                         LET decap_term_table_key == <<"TUNNEL_DECAP_TERM_TABLE">> \o key \o <<dip>> IN
                         IF src_ip # {} THEN
                             AndThen(set(d2, "appDB", decap_term_table_key, "src_ip",
                                         CHOOSE x \in src_ip : TRUE),
                                     LAMBDA d3 : set(d3, "appDB", decap_term_table_key, "term_type", "P2P"))
                         ELSE set(d2, "appDB", decap_term_table_key, "term_type", "P2MP"))
        IN AndThen(terms, LAMBDA d2 :
               IF dst_ip # {} \/ src_ip # {}
               THEN set_entry(d2, "appDB", "TUNNEL_DECAP_TABLE", key, attrs)
               ELSE Ok(d2)))

migrate_port_qos_map_global(d) ==
    IF asic_type # "broadcom" THEN Ok(d)
    ELSE
    LET dscp_to_tc_map_table_names == get_keys(d, "configDB", "DSCP_TO_TC_MAP") IN
    IF Len(dscp_to_tc_map_table_names) = 0 THEN Ok(d)
    ELSE IF <<"global">> \in DOMAIN get_table(d, "configDB", "PORT_QOS_MAP") THEN Ok(d)
    ELSE set_entry(d, "configDB", "PORT_QOS_MAP", <<"global">>,
                   [dscp_to_tc_map |-> dscp_to_tc_map_table_names[1][1]])

migrate_feature_timer(d) ==
    LET feature_table == get_table(d, "configDB", "FEATURE") IN
    ForEach(d, table_keys(d, "configDB", "FEATURE"), LAMBDA d1, feature :
        LET config == feature_table[feature] IN
        IF "has_timer" \notin DOMAIN config THEN Ok(d1)
        ELSE set_entry(d1, "configDB", "FEATURE", feature,
                       [f \in {"delayed"} |-> config["has_timer"]] @@ Without(config, "has_timer")))

\* migrate_dns_nameserver without the `if not dns_table` test
migrate_dns_nameserver_always(d) ==
    IF no_config_src("DNS_NAMESERVER") THEN Ok(d)
    ELSE
    LET src == config_src_data["DNS_NAMESERVER"] IN
    ForEach(d, SetToSeq(DOMAIN src), LAMBDA d1, addr :
        set_entry(d1, "configDB", "DNS_NAMESERVER", <<addr>>, src[addr]))

migrate_dns_nameserver(d) ==
    IF no_config_src("DNS_NAMESERVER") THEN Ok(d)
    ELSE
    LET dns_table == get_table(d, "configDB", "DNS_NAMESERVER")
        src == config_src_data["DNS_NAMESERVER"]
    IN
    IF DOMAIN dns_table # {} THEN Ok(d)
    ELSE ForEach(d, SetToSeq(DOMAIN src), LAMBDA d1, addr :
             set_entry(d1, "configDB", "DNS_NAMESERVER", <<addr>>, src[addr]))

migrate_routing_config_mode(d) ==
    IF no_config_src("DEVICE_METADATA") THEN Ok(d)
    ELSE
    LET device_metadata_old == get_entry(d, "configDB", "DEVICE_METADATA", <<"localhost">>) IN
    IF "localhost" \notin DOMAIN config_src_data["DEVICE_METADATA"] THEN Raise(d)
    ELSE
    LET device_metadata_new == config_src_data["DEVICE_METADATA"]["localhost"]
        mode == "docker_routing_config_mode"
    IN
    IF \/ (mode \notin DOMAIN device_metadata_old /\ mode \in DOMAIN device_metadata_new)
       \/ dict_get(device_metadata_old, mode) # dict_get(device_metadata_new, mode)
    THEN set_entry(d, "configDB", "DEVICE_METADATA", <<"localhost">>,
                   [f \in {mode} |-> str_get(device_metadata_new, mode)] @@ device_metadata_old)
    ELSE Ok(d)

EDGEZONE_AGG_CABLE_LENGTH == "40m"

\* update_edgezone_aggregator_config setting every interface of the entry to 40m
update_edgezone_aggregator_config_all(d) ==
    LET device_neighbor_metadata == get_table(d, "configDB", "DEVICE_NEIGHBOR_METADATA")
        edgezone_aggregator_devs ==
            {k[1] : k \in {k \in DOMAIN device_neighbor_metadata :
                dict_get(device_neighbor_metadata[k], "type") = {"EdgeZoneAggregator"}}}
        cable_length_table == get_entry(d, "configDB", "CABLE_LENGTH", <<"AZURE">>)
    IN
    IF edgezone_aggregator_devs = {} THEN Ok(d)
    ELSE IF DOMAIN cable_length_table = {} THEN Raise(d)
    ELSE IF \A i, j \in DOMAIN cable_length_table : cable_length_table[i] = cable_length_table[j]
    THEN Ok(d)
    ELSE ForEach(d, SetToSeq(DOMAIN cable_length_table), LAMBDA d1, intf :
             set(d1, "configDB", <<"CABLE_LENGTH", "AZURE">>, intf, EDGEZONE_AGG_CABLE_LENGTH))

update_edgezone_aggregator_config(d) ==
    LET device_neighbor_metadata == get_table(d, "configDB", "DEVICE_NEIGHBOR_METADATA")
        device_neighbors == get_table(d, "configDB", "DEVICE_NEIGHBOR")
        edgezone_aggregator_devs ==
            {k[1] : k \in {k \in DOMAIN device_neighbor_metadata :
                dict_get(device_neighbor_metadata[k], "type") = {"EdgeZoneAggregator"}}}
        edgezone_aggregator_intfs ==
            {k[1] : k \in {k \in DOMAIN device_neighbors :
                dict_get(device_neighbors[k], "name") \subseteq edgezone_aggregator_devs
                /\ dict_get(device_neighbors[k], "name") # {}}}
        cable_length_table == get_entry(d, "configDB", "CABLE_LENGTH", <<"AZURE">>)
    IN
    IF edgezone_aggregator_devs = {} THEN Ok(d)
    \* next(iter(cable_length_table)) raises StopIteration on an empty entry
    ELSE IF DOMAIN cable_length_table = {} THEN Raise(d)
    \* all cable lengths are the same, nothing to modify
    ELSE IF \A i, j \in DOMAIN cable_length_table : cable_length_table[i] = cable_length_table[j]
    THEN Ok(d)
    ELSE ForEach(d, SetToSeq(DOMAIN cable_length_table), LAMBDA d1, intf :
             IF intf \in edgezone_aggregator_intfs
             THEN set(d1, "configDB", <<"CABLE_LENGTH", "AZURE">>, intf, EDGEZONE_AGG_CABLE_LENGTH)
             ELSE Ok(d1))

migrate_config_db_flex_counter_delay_status(d) ==
    ForEach(d, get_keys(d, "configDB", "FLEX_COUNTER_TABLE"), LAMBDA d1, obj :
        LET flex_counter == get_entry(d1, "configDB", "FLEX_COUNTER_TABLE", obj)
            delay_status == dict_get(flex_counter, "FLEX_COUNTER_DELAY_STATUS")
        IN
        IF delay_status = {} \/ delay_status = {"false"}
        THEN mod_entry(d1, "configDB", "FLEX_COUNTER_TABLE", obj,
                       [FLEX_COUNTER_DELAY_STATUS |-> "true"] @@ flex_counter)
        ELSE Ok(d1))

migrate_flex_counter_delay_status_removal(d) ==
    ForEach(d, get_keys(d, "configDB", "FLEX_COUNTER_TABLE"), LAMBDA d1, obj :
        LET flex_counter == get_entry(d1, "configDB", "FLEX_COUNTER_TABLE", obj) IN
        set_entry(d1, "configDB", "FLEX_COUNTER_TABLE", obj,
                  Without(flex_counter, "FLEX_COUNTER_DELAY_STATUS")))

\* the four loops of migrate_sflow_table
sflow_config_loop(d, table) ==
    LET tbl == get_table(d, "configDB", table) IN
    ForEach(d, table_keys(d, "configDB", table), LAMBDA d1, k :
        IF "sample_direction" \in DOMAIN tbl[k] THEN Ok(d1)
        ELSE set_entry(d1, "configDB", table, k, [sample_direction |-> "rx"] @@ tbl[k]))

sflow_app_loop(d, table) ==
    LET tbl == get_table(d, "appDB", table) IN
    ForEach(d, table_keys(d, "appDB", table), LAMBDA d1, key :
        IF "sample_direction" \in DOMAIN tbl[key] THEN Ok(d1)
        ELSE set(d1, "appDB", <<table>> \o key, "sample_direction", "rx"))

migrate_sflow_table(d) ==
    AndThen(AndThen(AndThen(sflow_config_loop(d, "SFLOW"),
                            LAMBDA d1 : sflow_config_loop(d1, "SFLOW_SESSION")),
                    LAMBDA d1 : sflow_app_loop(d1, "SFLOW_TABLE")),
            LAMBDA d1 : sflow_app_loop(d1, "SFLOW_SESSION_TABLE"))

migrate_tacplus(d) ==
    IF no_config_src("TACPLUS") THEN Ok(d)
    ELSE
    LET tacplus_new == config_src_data["TACPLUS"]
        global_old == get_entry(d, "configDB", "TACPLUS", <<"global">>)
    IN
    IF DOMAIN global_old = {}
    THEN set_entry_opt(d, "configDB", "TACPLUS", <<"global">>, dict_get(tacplus_new, "global"))
    ELSE Ok(d)

\* migrate_aaa writing the authorization default without looking at the passkey
migrate_aaa_any_passkey(d) ==
    IF no_config_src("AAA") THEN Ok(d)
    ELSE
    IF DOMAIN get_entry(d, "configDB", "AAA", <<"authorization">>) = {}
    THEN set_entry_opt(d, "configDB", "AAA", <<"authorization">>,
                       dict_get(config_src_data["AAA"], "authorization"))
    ELSE Ok(d)

migrate_aaa(d) ==
    IF no_config_src("AAA") THEN Ok(d)
    ELSE
    LET aaa_new == config_src_data["AAA"]
        r1 == IF DOMAIN get_entry(d, "configDB", "AAA", <<"authentication">>) = {}
              THEN set_entry_opt(d, "configDB", "AAA", <<"authentication">>,
                                 dict_get(aaa_new, "authentication"))
              ELSE Ok(d)
        \* setup per-command accounting
        r2 == AndThen(r1, LAMBDA d1 :
              IF DOMAIN get_entry(d1, "configDB", "AAA", <<"accounting">>) = {}
              THEN set_entry_opt(d1, "configDB", "AAA", <<"accounting">>,
                                 dict_get(aaa_new, "accounting"))
              ELSE Ok(d1))
    \* setup per-command authorization
    IN AndThen(r2, LAMBDA d1 :
        LET tacplus_config == get_entry(d1, "configDB", "TACPLUS", <<"global">>) IN
        IF "passkey" \in DOMAIN tacplus_config /\ tacplus_config["passkey"] # "" THEN
            IF DOMAIN get_entry(d1, "configDB", "AAA", <<"authorization">>) = {}
            THEN set_entry_opt(d1, "configDB", "AAA", <<"authorization">>,
                               dict_get(aaa_new, "authorization"))
            ELSE Ok(d1)
        ELSE
            \* no passkey: per-command authorization would block remote user commands
            IF exists(d1, "configDB", <<"AAA", "authorization">>)
            THEN delete(d1, "configDB", <<"AAA", "authorization">>)
            ELSE Ok(d1))

\* what can go wrong with the store while the step runs: reading the VLAN table
\* raises, and per VLAN the write of DHCPV4_RELAY is not there when read back
\* ("lost"), the write of DHCPV4_RELAY raises, or the write of VLAN raises
FaultKinds == {"none", "lost", "raise_relay", "raise_vlan"}

NoFault == [table |-> FALSE, vlan |-> <<>>]

fault_of(fault, vlan_key) ==
    IF vlan_key[1] \in DOMAIN fault.vlan THEN fault.vlan[vlan_key[1]] ELSE "none"

\* the step removing dhcp_servers without the read-back of DHCPV4_RELAY
migrate_dhcp_servers_to_dhcpv4_relay_unverified(d, fault) ==
    IF fault.table THEN Ok(d)
    ELSE
    LET vlan_table == get_table(d, "configDB", "VLAN") IN
    ForEach(d, table_keys(d, "configDB", "VLAN"), LAMBDA d1, vlan_key :
        LET vlan_data == vlan_table[vlan_key] IN
        IF "dhcp_servers" \notin DOMAIN vlan_data THEN Ok(d1)
        ELSE
        LET dhcp_servers == vlan_data["dhcp_servers"]
            relay_data == get_entry(d1, "configDB", "DHCPV4_RELAY", vlan_key)
            updated_vlan_data == Without(vlan_data, "dhcp_servers")
            set_vlan(d2) == IF fault_of(fault, vlan_key) = "raise_vlan" THEN Ok(d2)
                            ELSE set_entry(d2, "configDB", "VLAN", vlan_key, updated_vlan_data)
        IN
        IF "dhcpv4_servers" \notin DOMAIN relay_data THEN
            IF fault_of(fault, vlan_key) = "raise_relay" THEN Ok(d1)
            ELSE
            AndThen(IF fault_of(fault, vlan_key) = "lost" THEN Ok(d1)
                    ELSE set_entry(d1, "configDB", "DHCPV4_RELAY", vlan_key,
                                   [dhcpv4_servers |-> dhcp_servers] @@ relay_data),
                set_vlan)
        ELSE set_vlan(d1))

\* an exception inside the try of one VLAN is logged and the loop goes on
migrate_dhcp_servers_to_dhcpv4_relay(d, fault) ==
    IF fault.table THEN Ok(d)
    ELSE
    LET vlan_table == get_table(d, "configDB", "VLAN") IN
    ForEach(d, table_keys(d, "configDB", "VLAN"), LAMBDA d1, vlan_key :
        LET vlan_data == vlan_table[vlan_key] IN
        IF "dhcp_servers" \notin DOMAIN vlan_data THEN Ok(d1)
        ELSE
        LET dhcp_servers == vlan_data["dhcp_servers"]
            relay_data == get_entry(d1, "configDB", "DHCPV4_RELAY", vlan_key)
            updated_vlan_data == Without(vlan_data, "dhcp_servers")
            set_vlan(d2) == IF fault_of(fault, vlan_key) = "raise_vlan" THEN Ok(d2)
                            ELSE set_entry(d2, "configDB", "VLAN", vlan_key, updated_vlan_data)
        IN
        IF "dhcpv4_servers" \notin DOMAIN relay_data THEN
            IF fault_of(fault, vlan_key) = "raise_relay" THEN Ok(d1)
            ELSE
            AndThen(IF fault_of(fault, vlan_key) = "lost" THEN Ok(d1)
                    ELSE set_entry(d1, "configDB", "DHCPV4_RELAY", vlan_key,
                                   [dhcpv4_servers |-> dhcp_servers] @@ relay_data),
                LAMBDA d2 :
                LET migrated_entry == get_entry(d2, "configDB", "DHCPV4_RELAY", vlan_key) IN
                IF dict_get(migrated_entry, "dhcpv4_servers") = {dhcp_servers}
                THEN set_vlan(d2)
                ELSE Ok(d2))
        ELSE set_vlan(d1))

-----------------------------------------------------------------------------
(* Buffer and QoS steps.  The string operations of the source (regular     *)
(* expression match, slicing, split, concatenation) are tabulated over the *)
(* profile and pool names the model uses.                                  *)

\* re.search(profile_pattern, name): the set holding <<speed, cable_length>>
profile_pattern(name) ==
    CASE name = "pg_lossless_100000_5m_profile" -> {<<"100000", "5m">>}
      [] name = "pg_lossless_50000_40m_profile" -> {<<"50000", "40m">>}
      [] OTHER -> {}

\* value[1:-1].split('|'): the parts of a '[TABLE|name]' reference, <<value[1:-1]>>
\* for a value without '|'
abnf_parts(value) ==
    CASE value = "[BUFFER_PROFILE|ingress_lossy_profile]" -> <<"BUFFER_PROFILE", "ingress_lossy_profile">>
      [] value = "[BUFFER_PROFILE|pg_lossless_100000_5m_profile]" -> <<"BUFFER_PROFILE", "pg_lossless_100000_5m_profile">>
      [] value = "[BUFFER_PROFILE|pg_lossless_50000_40m_profile]" -> <<"BUFFER_PROFILE", "pg_lossless_50000_40m_profile">>
      [] value = "[BUFFER_POOL|ingress_lossless_pool]" -> <<"BUFFER_POOL", "ingress_lossless_pool">>
      [] OTHER -> <<"">>

\* the value prepare_dynamic_buffer_for_warm_reboot builds from a reference field:
\* '_TABLE' appended to the first '|'-separated part, the other parts joined by ':'
appdb_ref(confdb_ref) ==
    CASE confdb_ref = "[BUFFER_PROFILE|ingress_lossy_profile]" -> "[BUFFER_PROFILE_TABLE:ingress_lossy_profile]"
      [] confdb_ref = "[BUFFER_PROFILE|pg_lossless_100000_5m_profile]" -> "[BUFFER_PROFILE_TABLE:pg_lossless_100000_5m_profile]"
      [] confdb_ref = "[BUFFER_PROFILE|pg_lossless_50000_40m_profile]" -> "[BUFFER_PROFILE_TABLE:pg_lossless_50000_40m_profile]"
      [] confdb_ref = "[BUFFER_POOL|ingress_lossless_pool]" -> "[BUFFER_POOL_TABLE:ingress_lossless_pool]"
      [] confdb_ref = "ingress_lossy_profile" -> "ingress_lossy_profile_TABLE"
      [] confdb_ref = "pg_lossless_100000_5m_profile" -> "pg_lossless_100000_5m_profile_TABLE"
      [] confdb_ref = "pg_lossless_50000_40m_profile" -> "pg_lossless_50000_40m_profile_TABLE"
      [] confdb_ref = "ingress_lossless_pool" -> "ingress_lossless_pool_TABLE"
      [] OTHER -> "unknown_TABLE"

\* the ABNF test of migrate_qos_db_fieldval_reference_remove and the string it
\* leaves: the names of the '[TABLE<delimiter>name]' items, joined by ','
abnf_strip(fieldVal, db_delimeter) ==
    IF db_delimeter = "|" THEN
        CASE fieldVal = "[BUFFER_PROFILE|ingress_lossy_profile]" -> {"ingress_lossy_profile"}
          [] fieldVal = "[BUFFER_PROFILE|pg_lossless_100000_5m_profile]" -> {"pg_lossless_100000_5m_profile"}
          [] fieldVal = "[BUFFER_PROFILE|pg_lossless_50000_40m_profile]" -> {"pg_lossless_50000_40m_profile"}
          [] fieldVal = "[BUFFER_POOL|ingress_lossless_pool]" -> {"ingress_lossless_pool"}
          [] OTHER -> {}
    ELSE
        CASE fieldVal = "[BUFFER_PROFILE_TABLE:ingress_lossy_profile]" -> {"ingress_lossy_profile"}
          [] fieldVal = "[BUFFER_PROFILE_TABLE:pg_lossless_100000_5m_profile]" -> {"pg_lossless_100000_5m_profile"}
          [] fieldVal = "[BUFFER_PROFILE_TABLE:pg_lossless_50000_40m_profile]" -> {"pg_lossless_50000_40m_profile"}
          [] fieldVal = "[BUFFER_POOL_TABLE:ingress_lossless_pool]" -> {"ingress_lossless_pool"}
          [] OTHER -> {}

\* MellanoxBufferMigrator.default_speed_list / default_cable_len_list
default_speed_list == {"1000", "10000", "25000", "40000", "50000", "100000", "200000", "400000"}

default_cable_len_list == {"5m", "40m", "300m"}

append_item(table, key, value) == [call |-> "append", table |-> table, key |-> key, value |-> value]

abandon == [call |-> "abandon", table |-> "", key |-> <<>>, value |-> {}]

\* the transform appending the edits that enable dynamic mode whatever it finds
migrate_config_db_buffer_tables_ungated(d, speed_list, cable_len_list, default_dynamic_th) ==
    <<append_item("DEVICE_METADATA", <<"localhost">>,
                  {[buffer_model |-> "dynamic"]
                       @@ get_entry(d, "configDB", "DEVICE_METADATA", <<"localhost">>)}),
      append_item("DEFAULT_LOSSLESS_BUFFER_PARAMETER", <<"AZURE">>,
                  {[default_dynamic_th |-> default_dynamic_th]}),
      append_item("LOSSLESS_TRAFFIC_PATTERN", <<"AZURE">>,
                  {[mtu |-> "1024", small_packet_percentage |-> "100"]})>>

\* the transform returning from its BUFFER_PG loop without calling abandon_method
migrate_config_db_buffer_tables_keep_pending(d, speed_list, cable_len_list, default_dynamic_th) ==
    LET dynamic_profile == get_table(d, "configDB", "BUFFER_PROFILE")
        removed == FlatMap(LAMBDA name :
                       IF \E m \in profile_pattern(name[1]) : m[1] \in speed_list /\ m[2] \in cable_len_list
                       THEN <<append_item("BUFFER_PROFILE", name, {})>> ELSE <<>>,
                       table_keys(d, "configDB", "BUFFER_PROFILE"))
        buffer_pgs == get_table(d, "configDB", "BUFFER_PG")
        ports == get_table(d, "configDB", "PORT")
        all_cable_lengths == get_table(d, "configDB", "CABLE_LENGTH")
        names == table_keys(d, "configDB", "BUFFER_PG")
        cable_lengths == all_cable_lengths[table_keys(d, "configDB", "CABLE_LENGTH")[1]]
        \* one iteration of the BUFFER_PG loop: "skip" (continue), "append" or "abandon"
        verdict(name) ==
            LET profile == buffer_pgs[name] IN
            IF Len(name) # 2 \/ "profile" \notin DOMAIN profile THEN "abandon"
            ELSE LET parts == abnf_parts(profile["profile"]) IN
            IF Len(parts) < 2 THEN "abandon"
            ELSE IF name[2] = "0" THEN
                (IF parts[2] # "ingress_lossy_profile" THEN "abandon" ELSE "skip")
            ELSE IF name[2] # "3-4" THEN "abandon"
            ELSE IF profile_pattern(parts[2]) = {} THEN "abandon"
            ELSE LET m == CHOOSE m \in profile_pattern(parts[2]) : TRUE IN
            IF /\ <<name[1]>> \in DOMAIN ports
               /\ "speed" \in DOMAIN ports[<<name[1]>>]
               /\ name[1] \in DOMAIN cable_lengths
               /\ m[1] = ports[<<name[1]>>]["speed"]
               /\ m[2] = cable_lengths[name[1]]
            THEN "append"
            \* a mismatch, or the KeyError of a missing port, speed or cable length
            ELSE "abandon"
        bad == {i \in 1..Len(names) : verdict(names[i]) = "abandon"}
        stop == IF bad = {} THEN Len(names) + 1 ELSE CHOOSE i \in bad : \A j \in bad : i <= j
        pgs == FlatMap(LAMBDA i :
                   IF i < stop /\ verdict(names[i]) = "append"
                   THEN <<append_item("BUFFER_PG", names[i], {[profile |-> "NULL"]})>>
                   ELSE <<>>,
                   [i \in 1..Len(names) |-> i])
        metadata == get_entry(d, "configDB", "DEVICE_METADATA", <<"localhost">>)
    IN
    IF DOMAIN buffer_pgs = {} \/ DOMAIN ports = {} \/ DOMAIN all_cable_lengths = {}
    THEN removed \o <<abandon>>
    ELSE IF bad # {} THEN removed \o pgs
    ELSE removed \o pgs \o
         <<append_item("DEVICE_METADATA", <<"localhost">>, {[buffer_model |-> "dynamic"] @@ metadata}),
           append_item("DEFAULT_LOSSLESS_BUFFER_PARAMETER", <<"AZURE">>,
                       {[default_dynamic_th |-> default_dynamic_th]}),
           append_item("LOSSLESS_TRAFFIC_PATTERN", <<"AZURE">>,
                       {[mtu |-> "1024", small_packet_percentage |-> "100"]})>>

\* The calls migrate_config_db_buffer_tables_for_dynamic_calculation makes to
\* append_item_method and abandon_method, in order; it issues no command itself and
\* returns True on every path.  An item's value is the set holding the entry, empty
\* for None.
migrate_config_db_buffer_tables_for_dynamic_calculation(d, speed_list, cable_len_list, default_dynamic_th) ==
    LET dynamic_profile == get_table(d, "configDB", "BUFFER_PROFILE")
        removed == FlatMap(LAMBDA name :
                       IF \E m \in profile_pattern(name[1]) : m[1] \in speed_list /\ m[2] \in cable_len_list
                       THEN <<append_item("BUFFER_PROFILE", name, {})>> ELSE <<>>,
                       table_keys(d, "configDB", "BUFFER_PROFILE"))
        buffer_pgs == get_table(d, "configDB", "BUFFER_PG")
        ports == get_table(d, "configDB", "PORT")
        all_cable_lengths == get_table(d, "configDB", "CABLE_LENGTH")
        names == table_keys(d, "configDB", "BUFFER_PG")
        cable_lengths == all_cable_lengths[table_keys(d, "configDB", "CABLE_LENGTH")[1]]
        \* one iteration of the BUFFER_PG loop: "skip" (continue), "append" or "abandon"
        verdict(name) ==
            LET profile == buffer_pgs[name] IN
            IF Len(name) # 2 \/ "profile" \notin DOMAIN profile THEN "abandon"
            ELSE LET parts == abnf_parts(profile["profile"]) IN
            IF Len(parts) < 2 THEN "abandon"
            ELSE IF name[2] = "0" THEN
                (IF parts[2] # "ingress_lossy_profile" THEN "abandon" ELSE "skip")
            ELSE IF name[2] # "3-4" THEN "abandon"
            ELSE IF profile_pattern(parts[2]) = {} THEN "abandon"
            ELSE LET m == CHOOSE m \in profile_pattern(parts[2]) : TRUE IN
            IF /\ <<name[1]>> \in DOMAIN ports
               /\ "speed" \in DOMAIN ports[<<name[1]>>]
               /\ name[1] \in DOMAIN cable_lengths
               /\ m[1] = ports[<<name[1]>>]["speed"]
               /\ m[2] = cable_lengths[name[1]]
            THEN "append"
            \* a mismatch, or the KeyError of a missing port, speed or cable length
            ELSE "abandon"
        bad == {i \in 1..Len(names) : verdict(names[i]) = "abandon"}
        stop == IF bad = {} THEN Len(names) + 1 ELSE CHOOSE i \in bad : \A j \in bad : i <= j
        pgs == FlatMap(LAMBDA i :
                   IF i < stop /\ verdict(names[i]) = "append"
                   THEN <<append_item("BUFFER_PG", names[i], {[profile |-> "NULL"]})>>
                   ELSE <<>>,
                   [i \in 1..Len(names) |-> i])
        metadata == get_entry(d, "configDB", "DEVICE_METADATA", <<"localhost">>)
    IN
    IF DOMAIN buffer_pgs = {} \/ DOMAIN ports = {} \/ DOMAIN all_cable_lengths = {}
    THEN removed \o <<abandon>>
    ELSE IF bad # {} THEN removed \o pgs \o <<abandon>>
    ELSE removed \o pgs \o
         <<append_item("DEVICE_METADATA", <<"localhost">>, {[buffer_model |-> "dynamic"] @@ metadata}),
           append_item("DEFAULT_LOSSLESS_BUFFER_PARAMETER", <<"AZURE">>,
                       {[default_dynamic_th |-> default_dynamic_th]}),
           append_item("LOSSLESS_TRAFFIC_PATTERN", <<"AZURE">>,
                       {[mtu |-> "1024", small_packet_percentage |-> "100"]})>>

buffer_table_list ==
    <<<<"BUFFER_POOL", "">>, <<"BUFFER_PROFILE", "pool">>, <<"BUFFER_PG", "profile">>,
      <<"BUFFER_QUEUE", "profile">>, <<"BUFFER_PORT_INGRESS_PROFILE_LIST", "profile_list">>,
      <<"BUFFER_PORT_EGRESS_PROFILE_LIST", "profile_list">>>>

\* given: the tables passed as buffer_pools, buffer_profiles, buffer_pgs (a function
\* from table name to table; a table not passed, or passed empty, is read)
prepare_dynamic_buffer_for_warm_reboot(d, given) ==
    LET warmreboot_state == get(d, "stateDB", <<"WARM_RESTART_ENABLE_TABLE", "system">>, "enable")
        mmu_size == get(d, "stateDB", <<"BUFFER_MAX_PARAM_TABLE", "global">>, "mmu_size")
    IN
    IF ~(warmreboot_state = {"true"} /\ (mmu_size = {} \/ mmu_size = {""})) THEN Ok(d)
    ELSE ForEach(d, buffer_table_list, LAMBDA d1, pair :
        LET table_name == pair[1]
            reference_field_name == pair[2]
            entries == IF table_name \in DOMAIN given /\ DOMAIN given[table_name] # {}
                       THEN given[table_name]
                       ELSE get_table(d1, "configDB", table_name)
        IN ForEach(d1, SetToSeq(DOMAIN entries), LAMBDA d2, key :
            LET items == entries[key]
                confdb_ref == dict_get(items, reference_field_name)
                appl_db_key == <<app_table_name(table_name)>> \o key
            IN
            IF reference_field_name # "" /\ (confdb_ref \subseteq {"", "NULL"}) THEN Ok(d2)
            ELSE
            LET copied == IF reference_field_name = "" THEN items
                          ELSE [f \in {reference_field_name} |->
                                   appdb_ref(CHOOSE x \in confdb_ref : TRUE)] @@ items
            IN ForEach(d2, SetToSeq(DOMAIN copied), LAMBDA d3, field :
                   set(d3, "appDB", appl_db_key, field, copied[field]))))

migrate_qos_db_fieldval_reference_remove(d, table_list, store, db_delimeter) ==
    ForEach(d, table_list, LAMBDA d1, pair :
        LET table_name == pair[1]
            fields_list == pair[2]
            qos_table == get_table(d1, store, table_name)
        IN ForEach(d1, table_keys(d1, store, table_name), LAMBDA d2, key :
            ForEach(d2, fields_list, LAMBDA d3, field :
                IF field \notin DOMAIN qos_table[key] THEN Ok(d3)
                ELSE LET fieldVal == qos_table[key][field] IN
                IF fieldVal = "" \/ fieldVal = "NULL" THEN Ok(d3)
                ELSE IF abnf_strip(fieldVal, db_delimeter) = {} THEN Ok(d3)
                ELSE set(d3, store, <<table_name>> \o key, field,
                         CHOOSE x \in abnf_strip(fieldVal, db_delimeter) : TRUE))))

qos_app_table_list ==
    <<<<"BUFFER_PG_TABLE", <<"profile">>>>,
      <<"BUFFER_QUEUE_TABLE", <<"profile">>>>,
      <<"BUFFER_PROFILE_TABLE", <<"pool">>>>,
      <<"BUFFER_PORT_INGRESS_PROFILE_LIST_TABLE", <<"profile_list">>>>,
      <<"BUFFER_PORT_EGRESS_PROFILE_LIST_TABLE", <<"profile_list">>>>>>

qos_table_list ==
    <<<<"QUEUE", <<"scheduler", "wred_profile">>>>,
      <<"PORT_QOS_MAP", <<"dscp_to_tc_map", "dot1p_to_tc_map", "pfc_to_queue_map",
                          "tc_to_pg_map", "tc_to_queue_map", "pfc_to_pg_map">>>>,
      <<"BUFFER_PG", <<"profile">>>>,
      <<"BUFFER_QUEUE", <<"profile">>>>,
      <<"BUFFER_PROFILE", <<"pool">>>>,
      <<"BUFFER_PORT_INGRESS_PROFILE_LIST", <<"profile_list">>>>,
      <<"BUFFER_PORT_EGRESS_PROFILE_LIST", <<"profile_list">>>>>>

migrate_qos_fieldval_reference_format(d) ==
    AndThen(migrate_qos_db_fieldval_reference_remove(d, qos_app_table_list, "appDB", ":"),
            LAMBDA d1 : migrate_qos_db_fieldval_reference_remove(d1, qos_table_list, "configDB", "|"))

-----------------------------------------------------------------------------
(* The platform sub-migrator (MellanoxBufferMigrator), consumed through    *)
(* its interface: a call returns a boolean the handler cannot predict.     *)
(* m gives, for each operation, what it returns if it is called.           *)

MlnxOutcomes == [pool_size : BOOLEAN, profile : BOOLEAN, flush : BOOLEAN, is_dynamic : BOOLEAN]

call(name, result) == [name |-> name, result |-> result]

\* `a and b and c`: the calls evaluated, in order, up to the first that fails
short_circuit(names, m) ==
    LET failing == {i \in 1..Len(names) : ~m[names[i]]}
        last == IF failing = {} THEN Len(names) ELSE CHOOSE i \in failing : \A j \in failing : i <= j
    IN [i \in 1..last |-> call(names[i], m[names[i]])]

all_succeeded(calls, n) == Len(calls) = n /\ \A i \in 1..Len(calls) : calls[i].result

\* the pending-change list after a sequence of append/abandon calls
pending_update_items(buffer_calls) ==
    IF \E i \in 1..Len(buffer_calls) : buffer_calls[i].call = "abandon" THEN <<>>
    ELSE buffer_calls

\* mlnx_flush_new_buffer_configuration when it succeeds: every pending item is set
mlnx_flush_new_buffer_configuration(d, pending) ==
    ForEach(d, pending, LAMBDA d1, item :
        set_entry_opt(d1, "configDB", item.table, item.key, item.value))

-----------------------------------------------------------------------------
(* The version handlers.  A handler's result carries the commands issued,  *)
(* whether it raised, the sub-migrator calls it made and what it returns.  *)

Done(r, calls, ret) == [d |-> r.d, w |-> r.w, exc |-> r.exc, calls |-> calls, ret |-> ret]

None == "None"

version_unknown(d) ==
    Done(AndThen(AndThen(AndThen(migrate_pfc_wd_table(d),
                                 migrate_interface_table),
                         migrate_intf_table),
                 LAMBDA d1 : set_version(d1, "version_1_0_2")),
         <<>>, "version_1_0_2")

version_1_0_1(d) ==
    Done(AndThen(AndThen(migrate_interface_table(d),
                         migrate_intf_table),
                 LAMBDA d1 : set_version(d1, "version_1_0_2")),
         <<>>, "version_1_0_2")

version_1_0_2(d, m) ==
    IF asic_type = "mellanox" THEN
        LET calls == short_circuit(<<"pool_size", "flush">>, m) IN
        Done(IF all_succeeded(calls, 2) THEN set_version(d, "version_1_0_3") ELSE Ok(d),
             calls, "version_1_0_3")
    ELSE Done(set_version(d, "version_1_0_3"), <<>>, "version_1_0_3")

version_1_0_3(d, m) ==
    LET r == migrate_feature_table(d) IN
    IF asic_type = "mellanox" THEN
        LET calls == short_circuit(<<"pool_size", "profile", "flush">>, m) IN
        Done(IF all_succeeded(calls, 3)
             THEN AndThen(r, LAMBDA d1 : set_version(d1, "version_1_0_4")) ELSE r,
             calls, "version_1_0_4")
    ELSE Done(AndThen(r, LAMBDA d1 : set_version(d1, "version_1_0_4")), <<>>, "version_1_0_4")

\* version_1_0_4 with set_version outside the test of the sub-migrator results
version_1_0_4_always(d, m) ==
    IF asic_type = "mellanox" THEN
        Done(set_version(d, "version_1_0_5"),
             short_circuit(<<"pool_size", "profile", "flush">>, m), "version_1_0_5")
    ELSE Done(set_version(d, "version_1_0_5"), <<>>, "version_1_0_5")

version_1_0_4(d, m) ==
    IF asic_type = "mellanox" THEN
        LET calls == short_circuit(<<"pool_size", "profile", "flush">>, m) IN
        Done(IF all_succeeded(calls, 3) THEN set_version(d, "version_1_0_5") ELSE Ok(d),
             calls, "version_1_0_5")
    ELSE Done(set_version(d, "version_1_0_5"), <<>>, "version_1_0_5")

\* version_1_0_5 sending a device with a failed call back to the first buffer step
version_1_0_5_rollback(d, m) ==
    IF asic_type = "mellanox" THEN
        LET calls == short_circuit(<<"pool_size", "profile", "flush">>, m) IN
        Done(IF all_succeeded(calls, 3) THEN set_version(d, "version_1_0_6")
             ELSE set_version(d, "version_1_0_2"),
             calls, "version_1_0_6")
    ELSE Done(set_version(d, "version_1_0_6"), <<>>, "version_1_0_6")

version_1_0_5(d, m) ==
    IF asic_type = "mellanox" THEN
        LET calls == short_circuit(<<"pool_size", "profile", "flush">>, m) IN
        Done(IF all_succeeded(calls, 3) THEN set_version(d, "version_1_0_6") ELSE Ok(d),
             calls, "version_1_0_6")
    ELSE Done(set_version(d, "version_1_0_6"), <<>>, "version_1_0_6")

\* version_1_0_6 taking an abandoned transform for a failed call
version_1_0_6_abandon_fails(d, m) ==
    IF asic_type = "mellanox" THEN
        LET given == [t \in {"BUFFER_POOL", "BUFFER_PROFILE", "BUFFER_PG"} |->
                          get_table(d, "configDB", t)]
            first == short_circuit(<<"pool_size", "profile">>, m)
            buffer_calls ==
                IF m.is_dynamic
                THEN migrate_config_db_buffer_tables_for_dynamic_calculation(
                         d, default_speed_list, default_cable_len_list, "0")
                ELSE <<>>
            flushed == IF m.flush
                       THEN mlnx_flush_new_buffer_configuration(d, pending_update_items(buffer_calls))
                       ELSE Ok(d)
        IN
        IF ~all_succeeded(first, 2) THEN Done(Ok(d), first, "version_2_0_0")
        ELSE IF \E i \in 1..Len(buffer_calls) : buffer_calls[i].call = "abandon"
        THEN Done(Ok(d), first \o <<call("is_dynamic", m.is_dynamic)>>, "version_2_0_0")
        ELSE IF ~m.flush
        THEN Done(flushed, first \o <<call("is_dynamic", m.is_dynamic), call("flush", FALSE)>>,
                  "version_2_0_0")
        ELSE Done(AndThen(AndThen(flushed,
                                  LAMBDA d1 : prepare_dynamic_buffer_for_warm_reboot(d1, given)),
                          LAMBDA d1 : set_version(d1, "version_2_0_0")),
                  first \o <<call("is_dynamic", m.is_dynamic), call("flush", TRUE)>>,
                  "version_2_0_0")
    ELSE
        Done(AndThen(AndThen(prepare_dynamic_buffer_for_warm_reboot(d, <<>>),
                 LAMBDA d1 :
                     set_entry(d1, "configDB", "DEVICE_METADATA", <<"localhost">>,
                               [buffer_model |-> "traditional"]
                                   @@ get_entry(d1, "configDB", "DEVICE_METADATA", <<"localhost">>))),
                 LAMBDA d1 : set_version(d1, "version_2_0_0")),
             <<>>, "version_2_0_0")

version_1_0_6(d, m) ==
    IF asic_type = "mellanox" THEN
        LET given == [t \in {"BUFFER_POOL", "BUFFER_PROFILE", "BUFFER_PG"} |->
                          get_table(d, "configDB", t)]
            first == short_circuit(<<"pool_size", "profile">>, m)
            buffer_calls ==
                IF m.is_dynamic
                THEN migrate_config_db_buffer_tables_for_dynamic_calculation(
                         d, default_speed_list, default_cable_len_list, "0")
                ELSE <<>>
            flushed == IF m.flush
                       THEN mlnx_flush_new_buffer_configuration(d, pending_update_items(buffer_calls))
                       ELSE Ok(d)
        IN
        IF ~all_succeeded(first, 2) THEN Done(Ok(d), first, "version_2_0_0")
        ELSE IF ~m.flush
        THEN Done(flushed, first \o <<call("is_dynamic", m.is_dynamic), call("flush", FALSE)>>,
                  "version_2_0_0")
        ELSE Done(AndThen(AndThen(flushed,
                                  LAMBDA d1 : prepare_dynamic_buffer_for_warm_reboot(d1, given)),
                          LAMBDA d1 : set_version(d1, "version_2_0_0")),
                  first \o <<call("is_dynamic", m.is_dynamic), call("flush", TRUE)>>,
                  "version_2_0_0")
    ELSE
        Done(AndThen(AndThen(prepare_dynamic_buffer_for_warm_reboot(d, <<>>),
                 LAMBDA d1 :
                     set_entry(d1, "configDB", "DEVICE_METADATA", <<"localhost">>,
                               [buffer_model |-> "traditional"]
                                   @@ get_entry(d1, "configDB", "DEVICE_METADATA", <<"localhost">>))),
                 LAMBDA d1 : set_version(d1, "version_2_0_0")),
             <<>>, "version_2_0_0")

version_2_0_0(d) ==
    Done(AndThen(migrate_port_qos_map_global(d),
                 LAMBDA d1 : set_version(d1, "version_2_0_1")),
         <<>>, "version_2_0_1")

\* version_2_0_1 writing the successor marker before its table steps
version_2_0_1_marker_first(d) ==
    Done(AndThen(AndThen(AndThen(AndThen(AndThen(set_version(d, "version_2_0_2"),
                                                 migrate_vxlan_config),
                                         migrate_restapi),
                                 migrate_telemetry),
                         migrate_console_switch),
                 migrate_device_metadata),
         <<>>, "version_2_0_2")

version_2_0_1(d) ==
    Done(AndThen(AndThen(AndThen(AndThen(AndThen(migrate_vxlan_config(d),
                                                 migrate_restapi),
                                         migrate_telemetry),
                                 migrate_console_switch),
                         migrate_device_metadata),
                 LAMBDA d1 : set_version(d1, "version_2_0_2")),
         <<>>, "version_2_0_2")

\* version_2_0_2 with the name of the previous version where the next belongs
version_2_0_2_back(d) == Done(set_version(d, "version_2_0_1"), <<>>, "version_2_0_1")

version_2_0_2(d) == Done(set_version(d, "version_3_0_0"), <<>>, "version_3_0_0")

version_3_0_0(d) ==
    Done(AndThen(AndThen(migrate_config_db_port_table_for_auto_neg(d),
                         migrate_config_db_port_table_for_dhcp_rate_limit),
                 LAMBDA d1 : set_version(d1, "version_3_0_1")),
         <<>>, "version_3_0_1")

version_3_0_1(d) ==
    LET warmreboot_state == get(d, "stateDB", <<"WARM_RESTART_ENABLE_TABLE", "system">>, "enable")
        portchannel_table == get_table(d, "configDB", "PORTCHANNEL")
        r == IF warmreboot_state # {"true"}
             THEN ForEach(d, table_keys(d, "configDB", "PORTCHANNEL"), LAMBDA d1, name :
                      set_entry(d1, "configDB", "PORTCHANNEL", name,
                                [lacp_key |-> "auto"] @@ portchannel_table[name]))
             ELSE Ok(d)
    IN Done(AndThen(r, LAMBDA d1 : set_version(d1, "version_3_0_2")), <<>>, "version_3_0_2")

version_3_0_2(d) ==
    Done(AndThen(migrate_qos_fieldval_reference_format(d),
                 LAMBDA d1 : set_version(d1, "version_3_0_3")),
         <<>>, "version_3_0_3")

version_3_0_3(d) ==
    Done(set_version(d, "version_3_0_4"),
         IF asic_type = "mellanox" THEN <<call("reclaiming_unused_buffer", TRUE)>> ELSE <<>>,
         "version_3_0_4")

version_3_0_4(d) ==
    LET qos_maps == get_table(d, "configDB", "PORT_QOS_MAP")
        r == ForEach(d, table_keys(d, "configDB", "PORT_QOS_MAP"), LAMBDA d1, k :
                 IF "pfc_enable" \in DOMAIN qos_maps[k]
                 THEN set_entry(d1, "configDB", "PORT_QOS_MAP", k,
                                [pfcwd_sw_enable |-> qos_maps[k]["pfc_enable"]] @@ qos_maps[k])
                 ELSE Ok(d1))
    IN Done(AndThen(r, LAMBDA d1 : set_version(d1, "version_3_0_5")), <<>>, "version_3_0_5")

\* version_3_0_5 deleting a loglevel key only when it was re-homed (no finally)
version_3_0_5_keep_failed(d) ==
    LET warmreboot_state == get(d, "stateDB", <<"WARM_RESTART_ENABLE_TABLE", "system">>, "enable")
        r == IF warmreboot_state = {"true"}
             THEN ForEach(d, SetToSeq(DOMAIN d["loglevelDB"]), LAMBDA d1, key :
                 LET fvs == get_all(d1, "loglevelDB", key) IN
                 IF key = <<"JINJA2_CACHE">> THEN delete(d1, "loglevelDB", key)
                 ELSE IF Len(key) < 2 \/ "LOGLEVEL" \notin DOMAIN fvs
                         \/ "LOGOUTPUT" \notin DOMAIN fvs THEN Ok(d1)
                 ELSE AndThen(AndThen(
                          set(d1, "configDB", <<"LOGGER", key[2]>>, "LOGLEVEL", fvs["LOGLEVEL"]),
                          LAMBDA d2 : set(d2, "configDB", <<"LOGGER", key[2]>>, "LOGOUTPUT", fvs["LOGOUTPUT"])),
                          LAMBDA d2 : delete(d2, "loglevelDB", key)))
             ELSE Ok(d)
    IN Done(AndThen(r, LAMBDA d1 : set_version(d1, "version_3_0_6")), <<>>, "version_3_0_6")

\* version_3_0_5 without the try around the re-homing of a key
version_3_0_5_no_try(d) ==
    LET warmreboot_state == get(d, "stateDB", <<"WARM_RESTART_ENABLE_TABLE", "system">>, "enable")
        r == IF warmreboot_state = {"true"}
             THEN ForEach(d, SetToSeq(DOMAIN d["loglevelDB"]), LAMBDA d1, key :
                 LET fvs == get_all(d1, "loglevelDB", key) IN
                 IF key = <<"JINJA2_CACHE">> THEN delete(d1, "loglevelDB", key)
                 ELSE IF Len(key) < 2 \/ "LOGLEVEL" \notin DOMAIN fvs
                         \/ "LOGOUTPUT" \notin DOMAIN fvs THEN Raise(d1)
                 ELSE AndThen(AndThen(
                          set(d1, "configDB", <<"LOGGER", key[2]>>, "LOGLEVEL", fvs["LOGLEVEL"]),
                          LAMBDA d2 : set(d2, "configDB", <<"LOGGER", key[2]>>, "LOGOUTPUT", fvs["LOGOUTPUT"])),
                          LAMBDA d2 : delete(d2, "loglevelDB", key)))
             ELSE Ok(d)
    IN Done(AndThen(r, LAMBDA d1 : set_version(d1, "version_3_0_6")), <<>>, "version_3_0_6")

version_3_0_5(d) ==
    LET warmreboot_state == get(d, "stateDB", <<"WARM_RESTART_ENABLE_TABLE", "system">>, "enable")
        r == IF warmreboot_state = {"true"}
             THEN ForEach(d, SetToSeq(DOMAIN d["loglevelDB"]), LAMBDA d1, key :
                 LET fvs == get_all(d1, "loglevelDB", key)
                     \* the try block: nothing is written when the key has no ':' or
                     \* either field is missing
                     moved ==
                         IF key = <<"JINJA2_CACHE">> THEN Ok(d1)
                         ELSE IF Len(key) < 2 \/ "LOGLEVEL" \notin DOMAIN fvs
                                 \/ "LOGOUTPUT" \notin DOMAIN fvs THEN Ok(d1)
                         ELSE AndThen(set(d1, "configDB", <<"LOGGER", key[2]>>, "LOGLEVEL", fvs["LOGLEVEL"]),
                                  LAMBDA d2 : set(d2, "configDB", <<"LOGGER", key[2]>>, "LOGOUTPUT", fvs["LOGOUTPUT"]))
                 \* finally
                 IN AndThen(moved, LAMBDA d2 : delete(d2, "loglevelDB", key)))
             ELSE Ok(d)
    IN Done(AndThen(r, LAMBDA d1 : set_version(d1, "version_3_0_6")), <<>>, "version_3_0_6")

version_3_0_6(d) == Done(set_version(d, "version_3_0_7"), <<>>, "version_3_0_7")

version_3_0_7(d) == Done(set_version(d, "version_4_0_0"), <<>>, "version_4_0_0")

version_4_0_0(d) ==
    LET r == IF exists(d, "stateDB", <<"FAST_RESTART_ENABLE_TABLE", "system">>) THEN Ok(d)
             ELSE set(d, "stateDB", <<"FAST_RESTART_ENABLE_TABLE", "system">>, "enable",
                      IF exists(d, "stateDB", <<"FAST_REBOOT", "system">>) THEN "true" ELSE "false")
    IN Done(AndThen(r, LAMBDA d1 : set_version(d1, "version_4_0_1")), <<>>, "version_4_0_1")

version_4_0_1(d) ==
    Done(AndThen(migrate_feature_timer(d), LAMBDA d1 : set_version(d1, "version_4_0_2")),
         <<>>, "version_4_0_2")

\* version_4_0_2 leaving out version_4_0_3 on a device that was not fast-rebooted
version_4_0_2_branch(d) ==
    LET r == IF exists(d, "stateDB", <<"FAST_REBOOT", "system">>)
             THEN migrate_config_db_flex_counter_delay_status(d) ELSE Ok(d)
    IN IF exists(d, "stateDB", <<"FAST_REBOOT", "system">>)
       THEN Done(AndThen(r, LAMBDA d1 : set_version(d1, "version_4_0_3")), <<>>, "version_4_0_3")
       ELSE Done(AndThen(r, LAMBDA d1 : set_version(d1, "version_202305_01")), <<>>,
                 "version_202305_01")

version_4_0_2(d) ==
    LET r == IF exists(d, "stateDB", <<"FAST_REBOOT", "system">>)
             THEN migrate_config_db_flex_counter_delay_status(d) ELSE Ok(d)
    IN Done(AndThen(r, LAMBDA d1 : set_version(d1, "version_4_0_3")), <<>>, "version_4_0_3")

version_4_0_3(d) == Done(set_version(d, "version_202305_01"), <<>>, "version_202305_01")

\* the FEATURE|dhcp_relay test shared by version_202305_01 .. version_202405_02
dhcp_relay_step(d) ==
    LET feature_table == get_table(d, "configDB", "FEATURE")
        dhcp_relay_feature == IF <<"dhcp_relay">> \in DOMAIN feature_table
                              THEN feature_table[<<"dhcp_relay">>] ELSE EmptyHash
    IN IF dict_get(dhcp_relay_feature, "has_sonic_dhcpv4_relay") = {"True"}
       THEN migrate_dhcp_servers_to_dhcpv4_relay(d, NoFault) ELSE Ok(d)

version_202305_01(d) ==
    Done(AndThen(dhcp_relay_step(d), LAMBDA d1 : set_version(d1, "version_202311_01")),
         <<>>, "version_202311_01")

version_202311_01(d) ==
    Done(AndThen(AndThen(AndThen(migrate_dns_nameserver(d),
                                 migrate_sflow_table),
                         dhcp_relay_step),
                 LAMBDA d1 : set_version(d1, "version_202311_02")),
         <<>>, "version_202311_02")

version_202311_02(d) ==
    Done(AndThen(AndThen(migrate_gnmi(d),
                         dhcp_relay_step),
                 LAMBDA d1 : set_version(d1, "version_202311_03")),
         <<>>, "version_202311_03")

version_202311_03(d) ==
    Done(AndThen(dhcp_relay_step(d), LAMBDA d1 : set_version(d1, "version_202405_01")),
         <<>>, "version_202405_01")

version_202405_01(d) ==
    Done(AndThen(dhcp_relay_step(d), LAMBDA d1 : set_version(d1, "version_202405_02")),
         <<>>, "version_202405_02")

version_202405_02(d) ==
    Done(AndThen(AndThen(dhcp_relay_step(d),
                         migrate_ipinip_tunnel),
                 LAMBDA d1 : set_version(d1, "version_202411_01")),
         <<>>, "version_202411_01")

\* a handler that removes the marker entry instead of rewriting it
version_202411_01_drop(d) ==
    Done(delete(d, "configDB", <<TABLE_NAME, TABLE_KEY>>), <<>>, "version_202411_02")

version_202411_01(d) == Done(set_version(d, "version_202411_02"), <<>>, "version_202411_02")

\* version_202411_02 without its set_version call
version_202411_02_noset(d) == Done(Ok(d), <<>>, "version_202505_01")

version_202411_02(d) == Done(set_version(d, "version_202505_01"), <<>>, "version_202505_01")

\* the terminal handler without the removal of the delay status
version_202505_01_keep(d) == Done(Ok(d), <<>>, None)

version_202505_01(d) == Done(migrate_flex_counter_delay_status_removal(d), <<>>, None)

-----------------------------------------------------------------------------
(* The common post-migration pass *)

\* 'Force10-S6100' in str(self.hwsku), on the SKU names the model uses
is_s6100(sku) == sku \in {"Force10-S6100", "Force10-S6100-ITPAC-T0"}

\* the init-config merge: {**init_cfg, **curr_cfg} for every entry of init_db
\* the merge with the defaults taking precedence: {**curr_cfg, **init_cfg}
merge_init_cfg_defaults_win(d) ==
    ForEach(d, SetToSeq(DOMAIN init_db.tables), LAMBDA d1, init_cfg_table :
        LET table_val == init_db.tables[init_cfg_table] IN
        ForEach(d1, SetToSeq(DOMAIN table_val), LAMBDA d2, key :
            LET curr_cfg == get_entry(d2, "configDB", init_cfg_table, <<key>>)
                init_cfg == table_val[key]
                new_cfg == init_cfg @@ curr_cfg
            IN set_entry(d2, "configDB", init_cfg_table, <<key>>, new_cfg)))

merge_init_cfg(d) ==
    ForEach(d, SetToSeq(DOMAIN init_db.tables), LAMBDA d1, init_cfg_table :
        LET table_val == init_db.tables[init_cfg_table] IN
        ForEach(d1, SetToSeq(DOMAIN table_val), LAMBDA d2, key :
            LET curr_cfg == get_entry(d2, "configDB", init_cfg_table, <<key>>)
                init_cfg == table_val[key]
                new_cfg == curr_cfg @@ init_cfg
            IN set_entry(d2, "configDB", init_cfg_table, <<key>>, new_cfg)))

\* the common pass clearing the COPP table on every platform
common_migration_ops_copp_everywhere(d) ==
    IF ~init_db.readable THEN Raise(d)
    ELSE
    LET r1 == merge_init_cfg(d)
        r2 == AndThen(r1, migrate_copp_table)
        r3 == AndThen(r2, LAMBDA d1 :
                  IF asic_type = "broadcom" /\ is_s6100(hwsku)
                  THEN migrate_mgmt_ports_on_s6100(d1) ELSE Ok(d1))
    IN AndThen(AndThen(AndThen(AndThen(r3,
                                       update_edgezone_aggregator_config),
                               migrate_routing_config_mode),
                       migrate_tacplus),
               migrate_aaa)

common_migration_ops(d) ==
    IF ~init_db.readable THEN Raise(d)
    ELSE
    LET r1 == merge_init_cfg(d)
        r2 == AndThen(r1, LAMBDA d1 :
                  IF asic_type # "mellanox" THEN migrate_copp_table(d1) ELSE Ok(d1))
        r3 == AndThen(r2, LAMBDA d1 :
                  IF asic_type = "broadcom" /\ is_s6100(hwsku)
                  THEN migrate_mgmt_ports_on_s6100(d1) ELSE Ok(d1))
    IN AndThen(AndThen(AndThen(AndThen(r3,
                                       update_edgezone_aggregator_config),
                               migrate_routing_config_mode),
                       migrate_tacplus),
               migrate_aaa)

-----------------------------------------------------------------------------
(* migrate(): the dispatch of the loop and the process that runs it *)

Handlers ==
    {"version_unknown", "version_1_0_1", "version_1_0_2", "version_1_0_3", "version_1_0_4",
     "version_1_0_5", "version_1_0_6", "version_2_0_0", "version_2_0_1", "version_2_0_2",
     "version_3_0_0", "version_3_0_1", "version_3_0_2", "version_3_0_3", "version_3_0_4",
     "version_3_0_5", "version_3_0_6", "version_3_0_7", "version_4_0_0", "version_4_0_1",
     "version_4_0_2", "version_4_0_3", "version_202305_01", "version_202311_01",
     "version_202311_02", "version_202311_03", "version_202405_01", "version_202405_02",
     "version_202411_01", "version_202411_02", "version_202505_01"}

\* getattr(self, version)() for a version that names a handler
dispatch(v, d, m) ==
    CASE v = "version_unknown" -> version_unknown(d)
      [] v = "version_1_0_1" -> version_1_0_1(d)
      [] v = "version_1_0_2" -> version_1_0_2(d, m)
      [] v = "version_1_0_3" -> version_1_0_3(d, m)
      [] v = "version_1_0_4" -> version_1_0_4(d, m)
      [] v = "version_1_0_5" -> version_1_0_5(d, m)
      [] v = "version_1_0_6" -> version_1_0_6(d, m)
      [] v = "version_2_0_0" -> version_2_0_0(d)
      [] v = "version_2_0_1" -> version_2_0_1(d)
      [] v = "version_2_0_2" -> version_2_0_2(d)
      [] v = "version_3_0_0" -> version_3_0_0(d)
      [] v = "version_3_0_1" -> version_3_0_1(d)
      [] v = "version_3_0_2" -> version_3_0_2(d)
      [] v = "version_3_0_3" -> version_3_0_3(d)
      [] v = "version_3_0_4" -> version_3_0_4(d)
      [] v = "version_3_0_5" -> version_3_0_5(d)
      [] v = "version_3_0_6" -> version_3_0_6(d)
      [] v = "version_3_0_7" -> version_3_0_7(d)
      [] v = "version_4_0_0" -> version_4_0_0(d)
      [] v = "version_4_0_1" -> version_4_0_1(d)
      [] v = "version_4_0_2" -> version_4_0_2(d)
      [] v = "version_4_0_3" -> version_4_0_3(d)
      [] v = "version_202305_01" -> version_202305_01(d)
      [] v = "version_202311_01" -> version_202311_01(d)
      [] v = "version_202311_02" -> version_202311_02(d)
      [] v = "version_202311_03" -> version_202311_03(d)
      [] v = "version_202405_01" -> version_202405_01(d)
      [] v = "version_202405_02" -> version_202405_02(d)
      [] v = "version_202411_01" -> version_202411_01(d)
      [] v = "version_202411_02" -> version_202411_02(d)
      [] v = "version_202505_01" -> version_202505_01(d)

\* the sub-migrator exists on mellanox only
Outcomes ==
    IF asic_type = "mellanox" THEN MlnxOutcomes
    ELSE {[pool_size |-> TRUE, profile |-> TRUE, flush |-> TRUE, is_dynamic |-> FALSE]}

delegated_failed(cs) ==
    \E i \in 1..Len(cs) : cs[i].name \in {"pool_size", "profile", "flush"} /\ ~cs[i].result

\* migrate() without the test for a handler that returns its own version
stuck_never(next, v) == FALSE

\* `if next_version == version: raise`
stuck(next, v) == next = v

\* the rest of one iteration of `while version:` once the dispatched callable has
\* ended with result r
\* a loop that leaves for the common pass after every handler
loop_step_leave_early(v, r) ==
    /\ db' = r.d
    /\ pre' = db
    /\ issued' = r.w
    /\ mlnx_calls' = r.calls
    /\ failed' = IF delegated_failed(r.calls) THEN failed \cup {v} ELSE failed
    /\ handlers' = Append(handlers, v)
    /\ IF r.exc THEN pc' = "raised" /\ UNCHANGED <<version, next_version>>
       ELSE /\ next_version' = r.ret
            /\ version' = r.ret
            /\ pc' = "common"
    /\ UNCHANGED <<asic_type, hwsku, config_src_data, init_db, commons, invocations, start_marker>>
    /\ UNCHANGED <<cli, faults>>

loop_step(v, r) ==
    /\ db' = r.d
    /\ pre' = db
    /\ issued' = r.w
    /\ mlnx_calls' = r.calls
    /\ failed' = IF delegated_failed(r.calls) THEN failed \cup {v} ELSE failed
    /\ handlers' = Append(handlers, v)
    /\ IF r.exc THEN pc' = "raised" /\ UNCHANGED <<version, next_version>>
       ELSE /\ next_version' = r.ret
            /\ IF stuck(r.ret, version) THEN pc' = "raised" /\ UNCHANGED version
               ELSE /\ version' = r.ret
                    /\ pc' = IF r.ret = None THEN "common" ELSE "loop"
    /\ UNCHANGED <<asic_type, hwsku, config_src_data, init_db, commons, invocations, start_marker>>
    /\ UNCHANGED <<cli, faults>>

\* migrate() is called: version = self.get_version()
migrate_start ==
    /\ pc \in {"idle", "done", "raised", "crashed"}
    /\ invocations < MaxInvocations
    /\ invocations' = invocations + 1
    /\ handlers' = <<>>
    /\ mlnx_calls' = <<>>
    /\ failed' = {}
    /\ commons' = 0
    /\ next_version' = ""
    /\ pre' = db
    /\ issued' = <<>>
    /\ IF get_version_raises(db)
       THEN pc' = "raised" /\ version' = "" /\ start_marker' = ""
       ELSE pc' = "loop" /\ version' = get_version(db) /\ start_marker' = get_version(db)
    /\ UNCHANGED <<db, asic_type, hwsku, config_src_data, init_db>>
    /\ UNCHANGED <<cli, faults>>

\* a marker that names the method get_version: the callable returns the marker
Handle_get_version ==
    /\ pc = "loop"
    /\ version = "get_version"
    /\ loop_step(version, IF get_version_raises(db) THEN Done(Raise(db), <<>>, None)
                          ELSE Done(Ok(db), <<>>, get_version(db)))

\* a marker that names no attribute of DBMigrator: getattr raises AttributeError
Handle_no_attribute ==
    /\ pc = "loop"
    /\ version \notin Handlers \cup {"get_version"}
    /\ loop_step(version, Done(Raise(db), <<>>, None))

migrate_common_migration_ops ==
    /\ pc = "common"
    /\ LET r == common_migration_ops(db) IN
       /\ db' = r.d
       /\ pre' = db
       /\ issued' = r.w
       /\ pc' = IF r.exc THEN "raised" ELSE "done"
    /\ commons' = commons + 1
    /\ UNCHANGED <<asic_type, hwsku, config_src_data, init_db, version, next_version,
                   handlers, mlnx_calls, failed, invocations, start_marker>>
    /\ UNCHANGED <<cli, faults>>

Handle_version_unknown ==
    /\ pc = "loop"
    /\ version = "version_unknown"
    /\ loop_step(version, version_unknown(db))

Handle_version_1_0_1 ==
    /\ pc = "loop"
    /\ version = "version_1_0_1"
    /\ loop_step(version, version_1_0_1(db))

Handle_version_1_0_2 ==
    /\ pc = "loop"
    /\ version = "version_1_0_2"
    /\ \E m \in Outcomes : loop_step(version, version_1_0_2(db, m))

Handle_version_1_0_3 ==
    /\ pc = "loop"
    /\ version = "version_1_0_3"
    /\ \E m \in Outcomes : loop_step(version, version_1_0_3(db, m))

Handle_version_1_0_4 ==
    /\ pc = "loop"
    /\ version = "version_1_0_4"
    /\ \E m \in Outcomes : loop_step(version, version_1_0_4(db, m))

Handle_version_1_0_5 ==
    /\ pc = "loop"
    /\ version = "version_1_0_5"
    /\ \E m \in Outcomes : loop_step(version, version_1_0_5(db, m))

Handle_version_1_0_6 ==
    /\ pc = "loop"
    /\ version = "version_1_0_6"
    /\ \E m \in Outcomes : loop_step(version, version_1_0_6(db, m))

Handle_version_2_0_0 ==
    /\ pc = "loop"
    /\ version = "version_2_0_0"
    /\ loop_step(version, version_2_0_0(db))

Handle_version_2_0_1 ==
    /\ pc = "loop"
    /\ version = "version_2_0_1"
    /\ loop_step(version, version_2_0_1(db))

Handle_version_2_0_2 ==
    /\ pc = "loop"
    /\ version = "version_2_0_2"
    /\ loop_step(version, version_2_0_2(db))

Handle_version_3_0_0 ==
    /\ pc = "loop"
    /\ version = "version_3_0_0"
    /\ loop_step(version, version_3_0_0(db))

Handle_version_3_0_1 ==
    /\ pc = "loop"
    /\ version = "version_3_0_1"
    /\ loop_step(version, version_3_0_1(db))

Handle_version_3_0_2 ==
    /\ pc = "loop"
    /\ version = "version_3_0_2"
    /\ loop_step(version, version_3_0_2(db))

Handle_version_3_0_3 ==
    /\ pc = "loop"
    /\ version = "version_3_0_3"
    /\ loop_step(version, version_3_0_3(db))

Handle_version_3_0_4 ==
    /\ pc = "loop"
    /\ version = "version_3_0_4"
    /\ loop_step(version, version_3_0_4(db))

Handle_version_3_0_5 ==
    /\ pc = "loop"
    /\ version = "version_3_0_5"
    /\ loop_step(version, version_3_0_5(db))

Handle_version_3_0_6 ==
    /\ pc = "loop"
    /\ version = "version_3_0_6"
    /\ loop_step(version, version_3_0_6(db))

Handle_version_3_0_7 ==
    /\ pc = "loop"
    /\ version = "version_3_0_7"
    /\ loop_step(version, version_3_0_7(db))

Handle_version_4_0_0 ==
    /\ pc = "loop"
    /\ version = "version_4_0_0"
    /\ loop_step(version, version_4_0_0(db))

Handle_version_4_0_1 ==
    /\ pc = "loop"
    /\ version = "version_4_0_1"
    /\ loop_step(version, version_4_0_1(db))

Handle_version_4_0_2 ==
    /\ pc = "loop"
    /\ version = "version_4_0_2"
    /\ loop_step(version, version_4_0_2(db))

Handle_version_4_0_3 ==
    /\ pc = "loop"
    /\ version = "version_4_0_3"
    /\ loop_step(version, version_4_0_3(db))

Handle_version_202305_01 ==
    /\ pc = "loop"
    /\ version = "version_202305_01"
    /\ loop_step(version, version_202305_01(db))

Handle_version_202311_01 ==
    /\ pc = "loop"
    /\ version = "version_202311_01"
    /\ loop_step(version, version_202311_01(db))

Handle_version_202311_02 ==
    /\ pc = "loop"
    /\ version = "version_202311_02"
    /\ loop_step(version, version_202311_02(db))

Handle_version_202311_03 ==
    /\ pc = "loop"
    /\ version = "version_202311_03"
    /\ loop_step(version, version_202311_03(db))

Handle_version_202405_01 ==
    /\ pc = "loop"
    /\ version = "version_202405_01"
    /\ loop_step(version, version_202405_01(db))

Handle_version_202405_02 ==
    /\ pc = "loop"
    /\ version = "version_202405_02"
    /\ loop_step(version, version_202405_02(db))

Handle_version_202411_01 ==
    /\ pc = "loop"
    /\ version = "version_202411_01"
    /\ loop_step(version, version_202411_01(db))

Handle_version_202411_02 ==
    /\ pc = "loop"
    /\ version = "version_202411_02"
    /\ loop_step(version, version_202411_02(db))

Handle_version_202505_01 ==
    /\ pc = "loop"
    /\ version = "version_202505_01"
    /\ loop_step(version, version_202505_01(db))

-----------------------------------------------------------------------------
(* The states migrate() is started in: a device's stores, its platform,    *)
(* the snapshot and the init-config file                                   *)

NullEntry == [NULL |-> "NULL"]

EmptyStores == [configDB |-> <<>>, appDB |-> <<>>, stateDB |-> <<>>, loglevelDB |-> <<>>]

BaseConfigDB ==
       <<"PORT", "Ethernet0">> :> [autoneg |-> "1", speed |-> "100000"]
    @@ <<"PFC_WD_TABLE", "Ethernet0">> :> [action |-> "drop"]
    @@ <<"INTERFACE", "Ethernet0", "10.0.0.0/31">> :> NullEntry
    @@ <<"LOOPBACK_INTERFACE", "Loopback0", "10.1.0.32/32">> :> NullEntry
    @@ <<"FEATURE", "telemetry">> :> [status |-> "enabled", has_timer |-> "False"]
    @@ <<"FEATURE", "dhcp_relay">> :> [status |-> "enabled", has_sonic_dhcpv4_relay |-> "True"]
    @@ <<"CONTAINER_FEATURE", "telemetry">> :> [auto_restart |-> "enabled"]
    @@ <<"PORTCHANNEL", "PortChannel1">> :> [mtu |-> "9100"]
    @@ <<"PORT_QOS_MAP", "Ethernet0">> :> [pfc_enable |-> "3,4"]
    @@ <<"DSCP_TO_TC_MAP", "AZURE">> :> ("1" :> "1")
    @@ <<"BUFFER_POOL", "ingress_lossless_pool">> :> [size |-> "4194304", type |-> "ingress"]
    @@ <<"BUFFER_PROFILE", "ingress_lossy_profile">> :>
           [pool |-> "[BUFFER_POOL|ingress_lossless_pool]", size |-> "0"]
    @@ <<"BUFFER_PROFILE", "pg_lossless_100000_5m_profile">> :>
           [pool |-> "[BUFFER_POOL|ingress_lossless_pool]", size |-> "34816"]
    @@ <<"BUFFER_PG", "Ethernet0", "0">> :> [profile |-> "[BUFFER_PROFILE|ingress_lossy_profile]"]
    @@ <<"BUFFER_PG", "Ethernet0", "3-4">> :>
           [profile |-> "[BUFFER_PROFILE|pg_lossless_100000_5m_profile]"]
    @@ <<"CABLE_LENGTH", "AZURE">> :> [Ethernet0 |-> "5m"]
    @@ <<"VLAN", "Vlan1000">> :> [vlanid |-> "1000", dhcp_servers |-> "192.0.0.1"]
    @@ <<"FLEX_COUNTER_TABLE", "PORT">> :>
           [FLEX_COUNTER_STATUS |-> "enable", FLEX_COUNTER_DELAY_STATUS |-> "false"]
    @@ <<"VXLAN_TUNNEL", "vtep1">> :> [src_ip |-> "10.1.0.32"]
    @@ <<"DEVICE_METADATA", "localhost">> :> [type |-> "ToRRouter"]
    @@ <<"TELEMETRY", "gnmi">> :> [port |-> "8080"]
    @@ <<"SFLOW", "global">> :> [admin_state |-> "up"]

BaseAppDB ==
       <<"INTF_TABLE", "lo", "10.1.0.32/32">> :> [scope |-> "global", family |-> "IPv4"]
    @@ <<"INTF_TABLE", "Ethernet0", "10.0.0.0/31">> :> [scope |-> "global", family |-> "IPv4"]
    @@ <<"COPP_TABLE", "trap.group.bgp">> :> [queue |-> "4"]
    @@ <<"TUNNEL_DECAP_TABLE", "IPINIP_TUNNEL">> :>
           [dst_ip |-> "10.1.0.32,10.1.0.33", tunnel_type |-> "IPINIP"]
    @@ <<"PORT_TABLE", "PortConfigDone">> :> [count |-> "2"]
    @@ <<"SFLOW_SESSION_TABLE", "Ethernet0">> :> [admin_state |-> "up"]

BaseLoglevelDB ==
       <<"orchagent", "orchagent">> :> [LOGLEVEL |-> "NOTICE", LOGOUTPUT |-> "SYSLOG"]
    @@ <<"JINJA2_CACHE">> :> [cache |-> "templates"]

WarmStateDB(warm) ==
    IF warm
    THEN <<"WARM_RESTART_ENABLE_TABLE", "system">> :> [enable |-> "true"]
         @@ <<"FAST_REBOOT", "system">> :> [enable |-> "true"]
    ELSE <<"WARM_RESTART_ENABLE_TABLE", "system">> :> [enable |-> "false"]

\* the marker entry; "" is a store without marker
WithMarker(cfg, marker) ==
    IF marker = "" THEN cfg
    ELSE <<"VERSIONS", "DATABASE">> :> [VERSION |-> marker] @@ cfg

BaseStores(marker, warm) ==
    [configDB |-> WithMarker(BaseConfigDB, marker), appDB |-> BaseAppDB,
     stateDB |-> WarmStateDB(warm), loglevelDB |-> BaseLoglevelDB]

\* the snapshot generate_config_src builds from the minigraph and golden config
Snapshot ==
    [RESTAPI |-> [config |-> [client_ca_crt |-> "/etc/sonic/credentials/ca.crt"],
                  certs |-> [server_crt |-> "/etc/sonic/credentials/restapi.crt"]],
     TELEMETRY |-> [gnmi |-> [port |-> "50051"],
                    certs |-> [server_crt |-> "/etc/sonic/telemetry/server.crt"]],
     GNMI |-> [gnmi |-> [port |-> "50052"],
               certs |-> [server_crt |-> "/etc/sonic/credentials/gnmi.crt"]],
     CONSOLE_SWITCH |-> [console_mgmt |-> [enabled |-> "no"]],
     DEVICE_METADATA |-> [localhost |-> [synchronous_mode |-> "enable",
                                         docker_routing_config_mode |-> "separated"]],
     DNS_NAMESERVER |-> ("1.1.1.1" :> <<>> @@ "8.8.8.8" :> <<>>),
     TACPLUS |-> [global |-> [auth_type |-> "login", passkey |-> "secret"]],
     AAA |-> [authentication |-> [login |-> "tacacs+"],
              accounting |-> [login |-> "tacacs+,local"],
              authorization |-> [login |-> "tacacs+"]]]

\* init_cfg.json
InitCfg ==
    [readable |-> TRUE,
     tables |->
        [DEVICE_METADATA |-> [localhost |-> [default_bgp_status |-> "up", type |-> "LeafRouter"]],
         FEATURE |-> [telemetry |-> [state |-> "enabled", auto_restart |-> "enabled"]]]]

Unreadable == [readable |-> FALSE, tables |-> <<>>]

Platforms == {<<"mellanox", "ACS-MSN2700">>, <<"broadcom", "Force10-S6100">>,
              <<"barefoot", "montara">>}

\* the markers migrate() is started on: every handler, no marker, the name of
\* another method, a name DBMigrator does not have
StartMarkers == Handlers \cup {"", "get_version", "version_9_9_9"}

WarmMarkers == {"", "version_1_0_6", "version_2_0_1", "version_3_0_5", "version_202311_01"}

Scenario(stores, platform, src, cfg) ==
    [db |-> stores, asic_type |-> platform[1], hwsku |-> platform[2],
     config_src_data |-> src, init_db |-> cfg]

\* a device without marker whose PFC_WD already has an entry of a PFC_WD_TABLE key
PfcWdStores ==
    [BaseStores("", FALSE) EXCEPT
        !.configDB = <<"PFC_WD_TABLE", "GLOBAL">> :> [POLL_INTERVAL |-> "400"]
                     @@ <<"PFC_WD", "Ethernet0">> :> [action |-> "forward", detection_time |-> "200"]
                     @@ @]

\* a device at version_1_0_6 whose cable length is not the one its lossless
\* profile is named after
MismatchStores ==
    [BaseStores("version_1_0_6", FALSE) EXCEPT
        !.configDB = <<"CABLE_LENGTH", "AZURE">> :> [Ethernet0 |-> "40m"] @@ @]

\* a device at version_1_0_6 with a priority group other than 0 and 3-4
OddPgStores ==
    [BaseStores("version_1_0_6", FALSE) EXCEPT
        !.configDB = <<"BUFFER_PG", "Ethernet0", "6">> :>
                         [profile |-> "[BUFFER_PROFILE|pg_lossless_100000_5m_profile]"]
                     @@ @]

\* a device whose operator has chosen the routing mode and the synchronous mode
OperatorStores(marker) ==
    [BaseStores(marker, FALSE) EXCEPT
        !.configDB = <<"DEVICE_METADATA", "localhost">> :>
                         [type |-> "ToRRouter", docker_routing_config_mode |-> "unified",
                          synchronous_mode |-> "disable"]
                     @@ @]

\* a snapshot whose DEVICE_METADATA|localhost has no routing mode
SnapshotNoMode ==
    [Snapshot EXCEPT !.DEVICE_METADATA = [localhost |-> [synchronous_mode |-> "enable"]]]

\* a warm device at version_1_0_6 whose runtime store already holds a buffer pool
WarmBufferStores ==
    [BaseStores("version_1_0_6", TRUE) EXCEPT
        !.appDB = <<"BUFFER_POOL_TABLE", "ingress_lossless_pool">> :>
                      [size |-> "8388608", type |-> "ingress", xoff |-> "1048576"]
                  @@ @]

\* a snapshot from a golden config whose DEVICE_METADATA has no localhost
SnapshotNoLocalhost ==
    [Snapshot EXCEPT !.DEVICE_METADATA = <<>>]

\* a device at version_3_0_5 whose loglevel store also holds a key without ':',
\* a key without LOGOUTPUT and a key without LOGLEVEL
LoglevelStores(warm) ==
    [BaseStores("version_3_0_5", warm) EXCEPT
        !.loglevelDB = <<"swss_loglevel">> :> [LOGLEVEL |-> "INFO", LOGOUTPUT |-> "SYSLOG"]
                       @@ <<"syncd", "syncd">> :> [LOGLEVEL |-> "INFO"]
                       @@ <<"bgp", "bgpcfgd">> :> [LOGOUTPUT |-> "STDOUT"]
                       @@ <<"SAI_API_PORT", "SAI_API_PORT">> :>
                              [LOGLEVEL |-> "SAI_LOG_LEVEL_NOTICE", LOGOUTPUT |-> "SYSLOG"]
                       @@ @,
        !.configDB = <<"LOGGER", "orchagent">> :> [LOGLEVEL |-> "DEBUG", LOGOUTPUT |-> "STDOUT"]
                     @@ <<"LOGGER", "pmon">> :> [LOGLEVEL |-> "WARN", LOGOUTPUT |-> "SYSLOG"]
                     @@ @]

MigrateScenarios ==
    {Scenario(BaseStores(marker, FALSE), platform, <<>>, InitCfg) :
        marker \in StartMarkers, platform \in Platforms}
    \cup {Scenario(PfcWdStores, platform, <<>>, InitCfg) : platform \in Platforms}
    \cup {Scenario(stores, <<"mellanox", "ACS-MSN2700">>, <<>>, InitCfg) :
        stores \in {MismatchStores, OddPgStores}}
    \cup {Scenario(OperatorStores(marker), <<"barefoot", "montara">>, src, InitCfg) :
        marker \in {"version_2_0_0", "version_202411_02"}, src \in {Snapshot, SnapshotNoMode}}
    \cup {Scenario(BaseStores(marker, TRUE), platform, Snapshot, InitCfg) :
        marker \in WarmMarkers, platform \in Platforms}
    \cup {Scenario(WarmBufferStores, platform, <<>>, InitCfg) : platform \in Platforms}
    \cup {Scenario(LoglevelStores(warm), <<"barefoot", "montara">>, <<>>, InitCfg) :
        warm \in BOOLEAN}
    \cup {Scenario(BaseStores(marker, FALSE), <<"barefoot", "montara">>, SnapshotNoLocalhost,
                   InitCfg) : marker \in {"version_2_0_0", "version_2_0_1"}}
    \cup {Scenario(BaseStores("version_202411_02", FALSE), platform, <<>>, Unreadable) :
        platform \in Platforms}

\* the process before its first migrate()
Idle ==
    /\ pc = "idle"
    /\ version = ""
    /\ next_version = ""
    /\ handlers = <<>>
    /\ mlnx_calls = <<>>
    /\ failed = {}
    /\ issued = <<>>
    /\ commons = 0
    /\ invocations = 0
    /\ start_marker = ""
    /\ argv = <<>>
    /\ commands = <<>>
    /\ echoed = <<>>
    /\ faults = NoFault

Init ==
    /\ \E sc \in MigrateScenarios :
        /\ db = sc.db
        /\ pre = sc.db
        /\ asic_type = sc.asic_type
        /\ hwsku = sc.hwsku
        /\ config_src_data = sc.config_src_data
        /\ init_db = sc.init_db
    /\ Idle

Next ==
    \/ migrate_start
    \/ Handle_version_unknown
    \/ Handle_version_1_0_1
    \/ Handle_version_1_0_2
    \/ Handle_version_1_0_3
    \/ Handle_version_1_0_4
    \/ Handle_version_1_0_5
    \/ Handle_version_1_0_6
    \/ Handle_version_2_0_0
    \/ Handle_version_2_0_1
    \/ Handle_version_2_0_2
    \/ Handle_version_3_0_0
    \/ Handle_version_3_0_1
    \/ Handle_version_3_0_2
    \/ Handle_version_3_0_3
    \/ Handle_version_3_0_4
    \/ Handle_version_3_0_5
    \/ Handle_version_3_0_6
    \/ Handle_version_3_0_7
    \/ Handle_version_4_0_0
    \/ Handle_version_4_0_1
    \/ Handle_version_4_0_2
    \/ Handle_version_4_0_3
    \/ Handle_version_202305_01
    \/ Handle_version_202311_01
    \/ Handle_version_202311_02
    \/ Handle_version_202311_03
    \/ Handle_version_202405_01
    \/ Handle_version_202405_02
    \/ Handle_version_202411_01
    \/ Handle_version_202411_02
    \/ Handle_version_202505_01
    \/ Handle_get_version
    \/ Handle_no_attribute
    \/ migrate_common_migration_ops

Spec == Init /\ [][Next]_vars

-----------------------------------------------------------------------------
(* Properties of the version chain *)

Last(seq) == seq[Len(seq)]

persisted_marker(d) == get(d, "configDB", <<TABLE_NAME, TABLE_KEY>>, TABLE_FIELD)

\* the handlers in the order of the source
Chain ==
    <<"version_unknown", "version_1_0_1", "version_1_0_2", "version_1_0_3", "version_1_0_4",
      "version_1_0_5", "version_1_0_6", "version_2_0_0", "version_2_0_1", "version_2_0_2",
      "version_3_0_0", "version_3_0_1", "version_3_0_2", "version_3_0_3", "version_3_0_4",
      "version_3_0_5", "version_3_0_6", "version_3_0_7", "version_4_0_0", "version_4_0_1",
      "version_4_0_2", "version_4_0_3", "version_202305_01", "version_202311_01",
      "version_202311_02", "version_202311_03", "version_202405_01", "version_202405_02",
      "version_202411_01", "version_202411_02", "version_202505_01">>

Rank(v) == CHOOSE i \in 1..Len(Chain) : Chain[i] = v

\* C1: from a marker that has a handler, the handlers migrate() invokes advance
\* strictly along the chain (so none is invoked twice and at most Len(Chain) are
\* invoked), no handler returns the version it was invoked for, the version the
\* loop continues with has a handler, and the loop is left only after the terminal
\* handler version_202505_01 returned None.
C1_ChainReachesTerminal ==
    start_marker \in Handlers =>
        /\ \A i \in 1..Len(handlers) : handlers[i] \in Handlers
        /\ \A i, j \in 1..Len(handlers) : i < j => Rank(handlers[i]) < Rank(handlers[j])
        /\ Len(handlers) <= Len(Chain)
        /\ (pc = "loop" /\ handlers # <<>>) =>
               /\ version \in Handlers
               /\ next_version # Last(handlers)
               /\ Rank(version) > Rank(Last(handlers))
        /\ pc \in {"common", "done"} =>
               /\ handlers # <<>>
               /\ Last(handlers) = "version_202505_01"
               /\ next_version = None

C1_Witness ==
    /\ pc = "common"
    /\ start_marker = "version_unknown"
    /\ Len(handlers) = Len(Chain) - 1

\* C2: when migrate() has returned without raising, the persisted marker
\* VERSIONS|DATABASE.VERSION is version_202505_01.
C2_ReturnsAtCurrentVersion ==
    pc = "done" => persisted_marker(db) = {CURRENT_VERSION}

C2_Witness ==
    /\ pc = "done"
    /\ invocations = 1
    /\ start_marker = "version_unknown"
    /\ persisted_marker(db) = {CURRENT_VERSION}

\* C3: when the callable dispatched for a version returned that same version,
\* migrate() has raised: it is the last callable this migrate() invoked and the
\* common pass has not run.
C3_SelfLoopRaises ==
    (handlers # <<>> /\ next_version = Last(handlers)) =>
        /\ pc = "raised"
        /\ commons = 0

C3_Witness ==
    /\ pc = "raised"
    /\ handlers = <<"get_version">>
    /\ next_version = "get_version"
    /\ commons = 0

MellanoxGated ==
    {"version_1_0_2", "version_1_0_3", "version_1_0_4", "version_1_0_5", "version_1_0_6"}

\* the sub-migrator calls a gated handler delegates to, in the order of its test
DelegatedSequence(v) ==
    IF v = "version_1_0_2" THEN <<"pool_size", "flush">>
    ELSE <<"pool_size", "profile", "flush">>

IsDelegated(c) == c.name \in {"pool_size", "profile", "flush"}

wrote_marker(cmds, v) ==
    \E i \in 1..Len(cmds) :
        cmds[i] = hmset("configDB", <<TABLE_NAME, TABLE_KEY>>, [f \in {TABLE_FIELD} |-> v])

\* C4: on mellanox, when one of version_1_0_2 .. version_1_0_6 has returned, it
\* has written its successor marker exactly if every call of its delegated sequence
\* was made and returned success; the calls made are a prefix of that sequence, in
\* order, and only the last call made can have failed.
C4_MarkerIffAllSucceeded ==
    (asic_type = "mellanox" /\ pc = "loop" /\ handlers # <<>> /\ Last(handlers) \in MellanoxGated) =>
        LET names == DelegatedSequence(Last(handlers))
            made == SelectSeq(mlnx_calls, IsDelegated)
        IN /\ Len(made) <= Len(names)
           /\ \A i \in 1..Len(made) : made[i].name = names[i]
           /\ \A i \in 1..(Len(made) - 1) : made[i].result
           /\ wrote_marker(issued, next_version)
                  <=> (Len(made) = Len(names) /\ \A i \in 1..Len(made) : made[i].result)

C4_Witness ==
    /\ asic_type = "mellanox"
    /\ pc = "loop"
    /\ handlers # <<>>
    /\ Last(handlers) = "version_1_0_5"
    /\ Len(mlnx_calls) = 2
    /\ ~mlnx_calls[2].result
    /\ ~wrote_marker(issued, "version_1_0_6")

\* C5: when a delegated sub-migrator call failed in the handler of a version,
\* the marker is still at such a version when that migrate() has returned.
C5_FailedVersionKept ==
    (pc = "done" /\ failed # {}) => persisted_marker(db) \subseteq failed

\* the field f of an entry went from old to new by a value of the snapshot's
\* entry snap: new[f] is what snap.get(f) gives, or new is snap and lacks f
taken_from_snapshot(old, new, snap, f) ==
    IF f \in DOMAIN new
    THEN new[f] # old[f] /\ new[f] = str_get(snap, f)
    ELSE new = snap

\* C11: no handler and no common pass of a migrate() with a snapshot changes or
\* removes a field that an entry of the config store held before it by a value
\* taken from the snapshot's entry of the same table and key.
C11_SnapshotNeverOverwrites ==
    (config_src_data # <<>> /\ pc \in {"loop", "common", "done"}) =>
        \A t \in DOMAIN config_src_data : \A k \in DOMAIN config_src_data[t] :
            LET old == get_entry(pre, "configDB", t, <<k>>)
                new == get_entry(db, "configDB", t, <<k>>)
            IN \A f \in DOMAIN old :
                   ~taken_from_snapshot(old, new, config_src_data[t][k], f)

\* the precondition of the dynamic-buffer transform fails on the stores d: a
\* BUFFER_PG entry is for a priority group other than 0 and 3-4, the entry of
\* group 0 has a profile other than ingress_lossy_profile, or the entry of group
\* 3-4 has a profile not named after the port's speed and cable length
fails_precondition(d) ==
    LET buffer_pgs == get_table(d, "configDB", "BUFFER_PG")
        port == get_table(d, "configDB", "PORT")
        cable == get_entry(d, "configDB", "CABLE_LENGTH", <<"AZURE">>)
    IN \E name \in DOMAIN buffer_pgs :
        LET ref == dict_get(buffer_pgs[name], "profile") IN
        \/ name[2] \notin {"0", "3-4"}
        \/ name[2] = "0" /\ ref # {"[BUFFER_PROFILE|ingress_lossy_profile]"}
        \/ name[2] = "3-4" /\
               \A speed \in dict_get(port[<<name[1]>>], "speed") :
               \A len \in dict_get(cable, name[1]) :
                   ref # {"[BUFFER_PROFILE|pg_lossless_" \o speed \o "_" \o len \o "_profile]"}

\* the entries of the config store the dynamic-buffer transform would edit
transform_targets(d) ==
    {k \in DOMAIN d["configDB"] :
        \/ k[1] \in {"BUFFER_PROFILE", "BUFFER_PG", "DEFAULT_LOSSLESS_BUFFER_PARAMETER",
                      "LOSSLESS_TRAFFIC_PATTERN"}
        \/ k = <<"DEVICE_METADATA", "localhost">>}

\* version_1_0_6 has just run on mellanox with the dynamic buffer model
dynamic_transform_ran ==
    /\ asic_type = "mellanox"
    /\ pc = "loop"
    /\ handlers # <<>>
    /\ Last(handlers) = "version_1_0_6"
    /\ \E i \in 1..Len(mlnx_calls) : mlnx_calls[i] = call("is_dynamic", TRUE)

\* C12: when version_1_0_6 has run the dynamic-buffer transform on a config store
\* in which an entry fails the transform's precondition, every BUFFER_PROFILE,
\* BUFFER_PG, DEVICE_METADATA|localhost, DEFAULT_LOSSLESS_BUFFER_PARAMETER and
\* LOSSLESS_TRAFFIC_PATTERN entry of the config store is as it was before the
\* handler, whether or not the flush that follows succeeds.
C12_AbandonAtomicity ==
    (dynamic_transform_ran /\ fails_precondition(pre)) =>
        /\ transform_targets(db) = transform_targets(pre)
        /\ \A k \in transform_targets(pre) :
               get_all(db, "configDB", k) = get_all(pre, "configDB", k)

\* the flush succeeded after a transform that had appended the removal of a
\* profile before it met the mismatching entry
C12_Witness ==
    /\ dynamic_transform_ran
    /\ fails_precondition(pre)
    /\ start_marker = "version_1_0_6"
    /\ get_entry(pre, "configDB", "CABLE_LENGTH", <<"AZURE">>) = [Ethernet0 |-> "40m"]
    /\ mlnx_calls[Len(mlnx_calls)] = call("flush", TRUE)
    /\ wrote_marker(issued, "version_2_0_0")
    /\ exists(db, "configDB", <<"BUFFER_PROFILE", "pg_lossless_100000_5m_profile">>)

C17_CommonPassOnceAfterLoop ==
    [][/\ (pc' = "done") => (commons' = 1 /\ handlers' # <<>> /\ next_version' = None)
       /\ (commons' > commons) =>
              (pc = "common" /\ commons = 0 /\ next_version = None /\ handlers' = handlers)
       /\ (Len(handlers') > Len(handlers)) => (commons = 0 /\ commons' = 0)]_vars

\* migrate() started on the terminal version: one handler, then the common pass
C17_Witness ==
    /\ pc = "done"
    /\ start_marker = CURRENT_VERSION
    /\ handlers = <<CURRENT_VERSION>>
    /\ commons = 1

\* VERSIONS|DATABASE holds a VERSION
marker_exists(d) == get(d, "configDB", <<"VERSIONS", "DATABASE">>, "VERSION") # {}

\* C21 as stated: from the start of migrate() on, the marker exists at every
\* point, and every handler that has run has written it.
C21_MarkerAlways ==
    (invocations > 0) =>
        /\ marker_exists(db)
        /\ (pc \in {"loop", "common"} /\ handlers # <<>>) =>
               \E i \in 1..Len(issued) :
                   /\ issued[i].cmd = "hmset"
                   /\ issued[i].key = <<"VERSIONS", "DATABASE">>

\* C21 amended: no step of migrate() removes a marker that exists; a handler
\* that returns rewrites the marker to the version it returns, except the
\* terminal version_202505_01 and a handler with a failed delegated call, which
\* leave the marker entry as it is.
C21_MarkerNeverDeleted ==
    [][/\ marker_exists(db) => marker_exists(db')
       /\ (Len(handlers') > Len(handlers) /\ pc' \in {"loop", "common"}) =>
              IF Last(handlers') = "version_202505_01" \/ Last(handlers') \in failed'
              THEN get_all(db', "configDB", <<"VERSIONS", "DATABASE">>)
                       = get_all(db, "configDB", <<"VERSIONS", "DATABASE">>)
              ELSE /\ wrote_marker(issued', next_version')
                   /\ get_all(db', "configDB", <<"VERSIONS", "DATABASE">>)
                          = [VERSION |-> next_version']]_vars

\* a store that had no marker when migrate() started: the chain wrote it and
\* the terminal handler left it
C21_Witness ==
    /\ pc = "common"
    /\ start_marker = "version_unknown"
    /\ handlers[1] = "version_unknown"
    /\ Last(handlers) = "version_202505_01"
    /\ get_all(db, "configDB", <<"VERSIONS", "DATABASE">>) = [VERSION |-> "version_202505_01"]

\* C22: when the marker migrate() starts on is missing, empty or not the name of
\* a known version, the first handler dispatched is version_unknown, and the
\* dispatch does not raise.
C22_UnknownMarkerBootstraps ==
    (Len(handlers) = 1 /\ start_marker \notin Handlers \ {"version_unknown"}) =>
        /\ handlers[1] = "version_unknown"
        /\ pc # "raised"

\* C23: a handler that raises leaves the marker as it was when the handler was
\* entered, the common pass has not run, and nothing of that migrate() follows
\* the raise: the next step, if any, is the start of another migrate().
C23_RaiseKeepsMarker ==
    [][/\ (pc' = "raised" /\ Len(handlers') > Len(handlers)) =>
              /\ get_all(db', "configDB", <<"VERSIONS", "DATABASE">>)
                     = get_all(db, "configDB", <<"VERSIONS", "DATABASE">>)
              /\ commons' = 0
       /\ (pc = "raised") => (invocations' = invocations + 1 /\ db' = db)]_vars

\* version_2_0_1 raised in migrate_device_metadata after migrate_restapi wrote
C23_Witness ==
    /\ pc = "raised"
    /\ Last(handlers) = "version_2_0_1"
    /\ ~exists(pre, "configDB", <<"RESTAPI", "config">>)
    /\ exists(db, "configDB", <<"RESTAPI", "config">>)
    /\ get_all(db, "configDB", <<"VERSIONS", "DATABASE">>) = [VERSION |-> "version_2_0_1"]
    /\ commons = 0

\* version_3_0_5 has just returned
after_version_3_0_5 == handlers # <<>> /\ Last(handlers) = "version_3_0_5" /\ pc = "loop"

warm_flag(d) == get(d, "stateDB", <<"WARM_RESTART_ENABLE_TABLE", "system">>, "enable") = {"true"}

\* the LOGGER entries of the config store
logger_table(d) == [k \in {k \in DOMAIN d.configDB : k[1] = "LOGGER"} |-> d.configDB[k]]

\* the loglevel keys version_3_0_5 can re-home: component after ':', both fields
rehomable(d) ==
    {k \in DOMAIN d.loglevelDB :
        /\ Len(k) >= 2
        /\ {"LOGLEVEL", "LOGOUTPUT"} \subseteq DOMAIN d.loglevelDB[k]}

\* C25: after version_3_0_5 with the warm-restart flag 'true' no key that was in
\* the loglevel store is left in it, re-homed or not, and LOGGER has entries
\* besides those it had only for keys that could be re-homed (none for
\* JINJA2_CACHE); with any other flag the loglevel store and the LOGGER table
\* are as they were.
C25_LoglevelDrain ==
    after_version_3_0_5 =>
        IF warm_flag(pre)
        THEN /\ \A k \in DOMAIN pre.loglevelDB : k \notin DOMAIN db.loglevelDB
             /\ DOMAIN logger_table(db) \subseteq
                    DOMAIN logger_table(pre) \cup {<<"LOGGER", k[2]>> : k \in rehomable(pre)}
        ELSE /\ db.loglevelDB = pre.loglevelDB
             /\ logger_table(db) = logger_table(pre)

\* a warm device: keys that could not be re-homed and JINJA2_CACHE are gone too
C25_Witness ==
    /\ after_version_3_0_5
    /\ warm_flag(pre)
    /\ {<<"JINJA2_CACHE">>, <<"swss_loglevel">>, <<"syncd", "syncd">>, <<"orchagent", "orchagent">>}
           \subseteq DOMAIN pre.loglevelDB
    /\ db.loglevelDB = <<>>
    /\ ~exists(db, "configDB", <<"LOGGER", "syncd">>)
    /\ exists(db, "configDB", <<"LOGGER", "SAI_API_PORT">>)

\* C26: version_3_0_5 never raises; when the warm loglevel store holds keys that
\* cannot be re-homed, every key that can is still re-homed with its LOGLEVEL
\* and LOGOUTPUT, the handler writes the marker version_3_0_6 and returns it,
\* and the step that follows is the handler version_3_0_6.
C26_DrainFailureContinues ==
    [][/\ (Len(handlers') > Len(handlers) /\ Last(handlers') = "version_3_0_5") =>
              /\ pc' = "loop"
              /\ next_version' = "version_3_0_6"
              /\ get_all(db', "configDB", <<"VERSIONS", "DATABASE">>) = [VERSION |-> "version_3_0_6"]
              /\ warm_flag(db) =>
                     \A k \in rehomable(db) :
                         LET entry == get_all(db', "configDB", <<"LOGGER", k[2]>>) IN
                         /\ {"LOGLEVEL", "LOGOUTPUT"} \subseteq DOMAIN entry
                         /\ entry["LOGLEVEL"] = db.loglevelDB[k]["LOGLEVEL"]
                         /\ entry["LOGOUTPUT"] = db.loglevelDB[k]["LOGOUTPUT"]
       /\ after_version_3_0_5 => handlers' = Append(handlers, "version_3_0_6")]_vars

\* keys without ':', without LOGOUTPUT and without LOGLEVEL were met, and the
\* chain has gone on to the end from there
C26_Witness ==
    /\ pc = "done"
    /\ start_marker = "version_3_0_5"
    /\ warm_flag(db)
    /\ db.loglevelDB = <<>>
    /\ exists(db, "configDB", <<"LOGGER", "SAI_API_PORT">>)
    /\ ~exists(db, "configDB", <<"LOGGER", "syncd">>)
    /\ ~exists(db, "configDB", <<"LOGGER", "bgpcfgd">>)
    /\ get_all(db, "configDB", <<"VERSIONS", "DATABASE">>) = [VERSION |-> "version_202505_01"]

\* C27: after version_1_0_6, whose prepare_dynamic_buffer_for_warm_reboot copies
\* the buffer tables into the runtime store, every field a BUFFER_*_TABLE entry
\* of the runtime store had before has the value it had.
C27_BufferPropagationKeeps ==
    (handlers # <<>> /\ Last(handlers) = "version_1_0_6" /\ pc = "loop") =>
        \A k \in DOMAIN pre.appDB :
            k[1] \in {app_table_name(pair[1]) : pair \in {buffer_table_list[i] :
                                                    i \in 1..Len(buffer_table_list)}} =>
                /\ k \in DOMAIN db.appDB
                /\ \A f \in DOMAIN pre.appDB[k] :
                       f \in DOMAIN db.appDB[k] /\ db.appDB[k][f] = pre.appDB[k][f]

\* the successor of a handler in the chain
Successor(v) ==
    IF v = "version_unknown" THEN "version_1_0_2"
    ELSE IF v = CURRENT_VERSION THEN None
    ELSE Chain[Rank(v) + 1]

\* the handlers from v to the terminal handler, in the order they follow each other
RECURSIVE Segment(_)
Segment(v) == IF v = None THEN <<>> ELSE <<v>> \o Segment(Successor(v))

IsPrefix(a, b) == Len(a) <= Len(b) /\ \A i \in 1..Len(a) : a[i] = b[i]

MarkerRank(d) ==
    LET marker == persisted_marker(d) IN
    IF marker \subseteq Handlers /\ marker # {} THEN Rank(CHOOSE v \in marker : TRUE) ELSE 0

is_marker_write(c) ==
    c.store = "configDB" /\ c.key = <<TABLE_NAME, TABLE_KEY>> /\ c.cmd = "hmset"
        /\ TABLE_FIELD \in DOMAIN c.hash

\* C32: every write of the marker VERSIONS|DATABASE.VERSION by a handler or
\* the common pass of migrate() names a handler that is at the place in the
\* chain of the marker it replaces or later, and no command removes the marker;
\* so the persisted marker is never earlier after an operation than before it.
C32_MarkerForwardOnly ==
    /\ \A i \in 1..Len(issued) :
           LET at == ApplyAll(pre, SubSeq(issued, 1, i - 1)) IN
           IF is_marker_write(issued[i])
           THEN /\ issued[i].hash[TABLE_FIELD] \in Handlers
                /\ Rank(issued[i].hash[TABLE_FIELD]) >= MarkerRank(at)
           ELSE MarkerRank(Apply(at, issued[i])) = MarkerRank(at)
    /\ MarkerRank(db) >= MarkerRank(pre)

\* on mellanox version_1_0_3 failed and left the marker, version_1_0_4 moved it on
C32_Witness ==
    /\ asic_type = "mellanox"
    /\ pc = "loop"
    /\ handlers # <<>>
    /\ Last(handlers) = "version_1_0_4"
    /\ "version_1_0_3" \in failed
    /\ persisted_marker(pre) = {"version_1_0_3"}
    /\ wrote_marker(issued, "version_1_0_5")
    /\ persisted_marker(db) = {"version_1_0_5"}

\* the FLEX_COUNTER_TABLE entries of the config store that carry the delay status
delayed_counters(d) ==
    {k \in DOMAIN d.configDB :
        k[1] = "FLEX_COUNTER_TABLE" /\ "FLEX_COUNTER_DELAY_STATUS" \in DOMAIN d.configDB[k]}

C40_WitnessSet ==
    /\ pc = "loop"
    /\ handlers # <<>> /\ Last(handlers) = "version_4_0_2"
    /\ get(pre, "configDB", <<"FLEX_COUNTER_TABLE", "PORT">>, "FLEX_COUNTER_DELAY_STATUS") = {"false"}
    /\ get(db, "configDB", <<"FLEX_COUNTER_TABLE", "PORT">>, "FLEX_COUNTER_DELAY_STATUS") = {"true"}

\* a migrate() started on the terminal marker has removed the delay status
C40_WitnessTerminal ==
    /\ pc = "done"
    /\ invocations = 1
    /\ start_marker = CURRENT_VERSION
    /\ handlers = <<CURRENT_VERSION>>
    /\ delayed_counters(db) = {}
    /\ exists(db, "configDB", <<"FLEX_COUNTER_TABLE", "PORT">>)

-----------------------------------------------------------------------------
(* The fill-in steps called one at a time: the entries a step fills are     *)
(* absent, present without a field, or present with the operator's fields, *)
(* and the snapshot is missing, lacks the table, or holds any subset of    *)
(* the table's keys.                                                       *)

\* what the operator has set
OldEntries ==
    [RESTAPI |-> [config |-> [client_ca_crt |-> "/old/ca.crt", log_level |-> "info"],
                  certs |-> [server_crt |-> "/old/restapi.crt"]],
     TELEMETRY |-> [gnmi |-> [port |-> "8080", client_auth |-> "true"],
                    certs |-> [server_crt |-> "/old/telemetry.crt"]],
     GNMI |-> [gnmi |-> [port |-> "8081", client_auth |-> "true"],
               certs |-> [server_crt |-> "/old/gnmi.crt"]],
     CONSOLE_SWITCH |-> [console_mgmt |-> [enabled |-> "yes"]],
     DNS_NAMESERVER |-> ("1.1.1.1" :> [vrf |-> "mgmt"] @@ "8.8.8.8" :> [vrf |-> "mgmt"]),
     TACPLUS |-> [global |-> [passkey |-> "oldkey", timeout |-> "5"]],
     AAA |-> [authentication |-> [login |-> "local"],
              accounting |-> [login |-> "local"],
              authorization |-> [login |-> "local"]]]

FillTables == {"RESTAPI", "TELEMETRY", "GNMI", "CONSOLE_SWITCH", "DNS_NAMESERVER", "TACPLUS", "AAA"}

FillKeys(t) == DOMAIN OldEntries[t]

\* the entries of table t under a choice of absent | empty | old per key
Entries(t, choice) ==
    [k \in {<<t, key>> : key \in {key \in FillKeys(t) : choice[key] # "absent"}} |->
        IF choice[k[2]] = "empty" THEN NullEntry ELSE OldEntries[t][k[2]]]

\* what else the step of table t reads
ExtraEntries(t) ==
    CASE t = "GNMI" ->
           {Entries("TELEMETRY", ch) : ch \in [FillKeys("TELEMETRY") -> {"absent", "old"}]}
      [] t = "AAA" -> {<<>>, Entries("TACPLUS", [k \in {"global"} |-> "old"])}
      [] OTHER -> {<<>>}

SnapshotChoices(t) ==
    {<<>>, [x \in {"DEVICE_METADATA"} |-> Snapshot[x]]}
    \cup {[x \in {t} |-> Restrict(Snapshot[t], K)] : K \in SUBSET FillKeys(t)}

\* interface tables: per key, absent or one of the hashes listed; an interface
\* name belongs to one table
InterfaceEntries ==
       <<"INTERFACE", "Ethernet0">> :> {NullEntry, [vrf_name |-> "Vrf1"]}
    @@ <<"INTERFACE", "Ethernet0", "10.0.0.0/31">> :> {NullEntry, [scope |-> "global"]}
    @@ <<"INTERFACE", "Ethernet0", "fc00::/126">> :> {[family |-> "IPv6"]}
    @@ <<"VLAN_INTERFACE", "Vlan1000">> :> {[proxy_arp |-> "enabled"]}
    @@ <<"VLAN_INTERFACE", "Vlan1000", "192.168.0.1/21">> :> {NullEntry}
    @@ <<"LOOPBACK_INTERFACE", "Loopback0", "10.1.0.32/32">> :> {NullEntry}

InterfaceStores ==
    UNION {[K -> UNION {InterfaceEntries[k] : k \in K}] : K \in SUBSET DOMAIN InterfaceEntries}

InterfaceScenarios ==
    {Scenario([EmptyStores EXCEPT !.configDB = cfg], <<"barefoot", "montara">>, <<>>, InitCfg) :
        cfg \in {c \in InterfaceStores : \A k \in DOMAIN c : c[k] \in InterfaceEntries[k]}}

\* TACPLUS|global as the common pass may find it
TacplusChoices == {"absent", "empty", "no_passkey", "empty_passkey", "old"}

TacplusEntry(choice) ==
    CASE choice = "absent" -> <<>>
      [] choice = "empty" -> <<"TACPLUS", "global">> :> NullEntry
      [] choice = "no_passkey" -> <<"TACPLUS", "global">> :> [timeout |-> "5"]
      [] choice = "empty_passkey" -> <<"TACPLUS", "global">> :> [passkey |-> "", timeout |-> "5"]
      [] OTHER -> <<"TACPLUS", "global">> :> OldEntries["TACPLUS"]["global"]

AuthorizationEntry(choice) ==
    IF choice = "absent" THEN <<>>
    ELSE <<"AAA", "authorization">> :> OldEntries["AAA"]["authorization"]

\* a T0 whose Ethernet0 faces an EdgeZone aggregator, with cable lengths that differ
EdgezoneEntries(edge) ==
    IF edge
    THEN <<"DEVICE_NEIGHBOR_METADATA", "ARISTA01T1">> :> [type |-> "EdgeZoneAggregator"]
         @@ <<"DEVICE_NEIGHBOR", "Ethernet0">> :> [name |-> "ARISTA01T1", port |-> "Ethernet1"]
         @@ <<"CABLE_LENGTH", "AZURE">> :> [Ethernet0 |-> "5m", Ethernet4 |-> "300m"]
    ELSE <<>>

\* a migrated device at the time of the common pass
CommonStores(tac, authz, edge, warm) ==
    [BaseStores(CURRENT_VERSION, warm) EXCEPT
        !.configDB = TacplusEntry(tac) @@ AuthorizationEntry(authz) @@ EdgezoneEntries(edge) @@ @,
        !.appDB = <<"COPP_TABLE", "trap.group.arp">> :> [queue |-> "4", trap_ids |-> "arp_req"]
                  @@ @]

\* the snapshot whole, without AAA, with AAA lacking authorization, without
\* TACPLUS, without DEVICE_METADATA
CommonSnapshots ==
    {<<>>, Snapshot,
     Restrict(Snapshot, DOMAIN Snapshot \ {"AAA"}),
     [Snapshot EXCEPT !.AAA = Restrict(@, {"authentication", "accounting"})],
     Restrict(Snapshot, DOMAIN Snapshot \ {"TACPLUS"}),
     Restrict(Snapshot, DOMAIN Snapshot \ {"DEVICE_METADATA"})}

CommonScenarios ==
    {Scenario(CommonStores(tac, authz, edge, pw[2]), pw[1], src, InitCfg) :
        tac \in TacplusChoices, authz \in {"absent", "old"}, edge \in BOOLEAN,
        pw \in (Platforms \X {FALSE}) \cup {<<<<"broadcom", "Force10-S6100">>, TRUE>>},
        src \in CommonSnapshots}

\* the marker entry as get_version and set_version may find it: absent, without
\* a field, with an empty VERSION, with a version, with a field besides VERSION
MarkerEntries ==
    {<<>>,
     <<"VERSIONS", "DATABASE">> :> NullEntry,
     <<"VERSIONS", "DATABASE">> :> [VERSION |-> ""],
     <<"VERSIONS", "DATABASE">> :> [VERSION |-> "version_1_0_1"],
     <<"VERSIONS", "DATABASE">> :> [VERSION |-> "version_4_0_3", BUILD |-> "master.1"],
     <<"VERSIONS", "DATABASE">> :> [VERSION |-> "version_202505_01"]}

VersionScenarios ==
    {Scenario([BaseStores("", warm) EXCEPT !.configDB = marker @@ @], platform, src, InitCfg) :
        marker \in MarkerEntries, warm \in BOOLEAN, platform \in Platforms,
        src \in {<<>>, Snapshot}}

\* buffer tables as the dynamic-buffer transform may find them: per key, absent
\* or one of the hashes listed
BufferEntries ==
       <<"BUFFER_PG", "Ethernet0", "0">> :>
           {[profile |-> "[BUFFER_PROFILE|ingress_lossy_profile]"],
            [profile |-> "[BUFFER_POOL|ingress_lossless_pool]"]}
    @@ <<"BUFFER_PG", "Ethernet0", "3-4">> :>
           {[profile |-> "[BUFFER_PROFILE|pg_lossless_100000_5m_profile]"],
            [profile |-> "[BUFFER_PROFILE|pg_lossless_50000_40m_profile]"],
            [profile |-> "[BUFFER_PROFILE|ingress_lossy_profile]"]}
    @@ <<"BUFFER_PG", "Ethernet0", "6">> :>
           {[profile |-> "[BUFFER_PROFILE|pg_lossless_100000_5m_profile]"]}
    @@ <<"BUFFER_PG", "Ethernet4", "3-4">> :>
           {[profile |-> "[BUFFER_PROFILE|pg_lossless_50000_40m_profile]"]}
    @@ <<"PORT", "Ethernet0">> :> {[speed |-> "100000"]}
    @@ <<"PORT", "Ethernet4">> :> {[speed |-> "50000"], [speed |-> "100000"]}
    @@ <<"CABLE_LENGTH", "AZURE">> :>
           {[Ethernet0 |-> "5m", Ethernet4 |-> "40m"], [Ethernet0 |-> "40m", Ethernet4 |-> "40m"]}

BufferStores ==
    UNION {{c \in [K -> UNION {BufferEntries[k] : k \in K}] :
               \A k \in K : c[k] \in BufferEntries[k]} : K \in SUBSET DOMAIN BufferEntries}

BufferScenarios ==
    {Scenario([EmptyStores EXCEPT
                  !.configDB = cfg
                      @@ <<"BUFFER_PROFILE", "pg_lossless_100000_5m_profile">> :>
                             [pool |-> "[BUFFER_POOL|ingress_lossless_pool]", size |-> "34816"]
                      @@ <<"BUFFER_PROFILE", "ingress_lossy_profile">> :>
                             [pool |-> "[BUFFER_POOL|ingress_lossless_pool]", size |-> "0"]
                      @@ <<"DEVICE_METADATA", "localhost">> :> [type |-> "ToRRouter"]],
              <<"mellanox", "ACS-MSN2700">>, <<>>, InitCfg) : cfg \in BufferStores}

\* a device at the time of the common pass whose management ports are in both
\* stores or in neither, and whose runtime store has the port count or lacks it
S6100Ports == {"Ethernet64", "Ethernet65"}

S6100Stores(present, counted, warm) ==
    LET operator == [alias |-> "tenGigE1/1", speed |-> "1000", admin_status |-> "up"] IN
    [BaseStores(CURRENT_VERSION, warm) EXCEPT
        !.configDB = [k \in {<<"PORT", q>> : q \in present} |-> operator] @@ @,
        !.appDB = [k \in {<<"PORT_TABLE", q>> : q \in present} |-> operator]
                  @@ (IF counted THEN @
                      ELSE Restrict(@, DOMAIN @ \ {<<"PORT_TABLE", "PortConfigDone">>}))]

S6100Platforms ==
    Platforms \cup {<<"broadcom", "Force10-S6100-ITPAC-T0">>, <<"broadcom", "Arista-7050-QX32">>,
                    <<"mellanox", "Force10-S6100">>}

S6100Scenarios ==
    {Scenario(S6100Stores(present, counted, warm), platform, <<>>, InitCfg) :
        present \in SUBSET S6100Ports, counted \in BOOLEAN, warm \in BOOLEAN,
        platform \in S6100Platforms}

\* a T0 with two interfaces to one neighbor and a third to another, the first
\* neighbor an EdgeZone aggregator or not, with every choice of cable lengths
CableLengths == {"5m", "300m"}

CableEntries(edge, lengths) ==
    <<"DEVICE_NEIGHBOR_METADATA", "ARISTA01T1">> :>
        [type |-> IF edge THEN "EdgeZoneAggregator" ELSE "LeafRouter"]
    @@ <<"DEVICE_NEIGHBOR_METADATA", "ARISTA02T1">> :> [type |-> "LeafRouter"]
    @@ <<"DEVICE_NEIGHBOR", "Ethernet0">> :> [name |-> "ARISTA01T1", port |-> "Ethernet1"]
    @@ <<"DEVICE_NEIGHBOR", "Ethernet8">> :> [name |-> "ARISTA01T1", port |-> "Ethernet2"]
    @@ <<"DEVICE_NEIGHBOR", "Ethernet4">> :> [name |-> "ARISTA02T1", port |-> "Ethernet1"]
    @@ (IF DOMAIN lengths = {} THEN <<>> ELSE <<"CABLE_LENGTH", "AZURE">> :> lengths)

CableScenarios ==
    {Scenario([EmptyStores EXCEPT !.configDB = CableEntries(edge, lengths)],
              <<"barefoot", "montara">>, <<>>, InitCfg) :
        edge \in BOOLEAN,
        lengths \in [{"Ethernet0", "Ethernet8", "Ethernet4"} -> CableLengths] \cup {<<>>}}

\* two features, each in FEATURE (old or new field name, or both), in
\* CONTAINER_FEATURE, in both or in neither
FeatureNames == {"telemetry", "dhcp_relay"}

FeatureChoices ==
    {<<>>, [status |-> "enabled"], [state |-> "disabled", has_timer |-> "False"],
     [status |-> "enabled", state |-> "disabled"]}

ContainerFeatureChoices ==
    {<<>>, [auto_restart |-> "enabled"], [auto_restart |-> "disabled", high_mem_alert |-> "disabled"]}

FeatureEntries(fc, cc) ==
    [k \in {<<"FEATURE", n>> : n \in {n \in FeatureNames : fc[n] # <<>>}} |-> fc[k[2]]]
    @@ [k \in {<<"CONTAINER_FEATURE", n>> : n \in {n \in FeatureNames : cc[n] # <<>>}} |-> cc[k[2]]]

FeatureScenarios ==
    {Scenario([EmptyStores EXCEPT !.configDB = FeatureEntries(fc, cc)],
              <<"barefoot", "montara">>, <<>>, InitCfg) :
        fc \in [FeatureNames -> FeatureChoices], cc \in [FeatureNames -> ContainerFeatureChoices]}

\* two VLANs, each absent, without or with dhcp_servers, and its DHCPV4_RELAY
\* entry absent, without or with dhcpv4_servers
VlanNames == {"Vlan1000", "Vlan2000"}

VlanChoices == {<<>>, [vlanid |-> "1000"], [vlanid |-> "1000", dhcp_servers |-> "192.0.0.1,192.0.0.2"]}

RelayChoices == {<<>>, [server_vrf |-> "default"], [dhcpv4_servers |-> "10.0.0.9"]}

DhcpScenarios ==
    {Scenario([EmptyStores EXCEPT !.configDB =
                  [k \in {<<"VLAN", n>> : n \in {n \in VlanNames : vc[n] # <<>>}} |-> vc[k[2]]]
                  @@ [k \in {<<"DHCPV4_RELAY", n>> : n \in {n \in VlanNames : rc[n] # <<>>}} |->
                         rc[k[2]]]],
              <<"barefoot", "montara">>, <<>>, InitCfg) :
        vc \in [VlanNames -> VlanChoices], rc \in [VlanNames -> RelayChoices]}

StepScenarios ==
    UNION {{Scenario([EmptyStores EXCEPT !.configDB = Entries(t, choice) @@ extra],
                     <<"barefoot", "montara">>, src, InitCfg) :
               choice \in [FillKeys(t) -> {"absent", "empty", "old"}],
               extra \in ExtraEntries(t),
               src \in SnapshotChoices(t)} : t \in FillTables}
    \cup InterfaceScenarios
    \cup CommonScenarios
    \cup VersionScenarios
    \cup BufferScenarios
    \cup S6100Scenarios
    \cup CableScenarios
    \cup FeatureScenarios
    \cup DhcpScenarios

InitSteps ==
    /\ \E sc \in StepScenarios :
        /\ db = sc.db
        /\ pre = sc.db
        /\ asic_type = sc.asic_type
        /\ hwsku = sc.hwsku
        /\ config_src_data = sc.config_src_data
        /\ init_db = sc.init_db
    /\ Idle

\* one direct call of an operation, alone or right after a call of the same one
call_step(name, r) ==
    /\ pc = "idle"
    /\ Len(handlers) < MaxCalls
    /\ IF handlers = <<>> THEN TRUE ELSE Last(handlers) = name
    /\ handlers' = Append(handlers, name)
    /\ db' = r.d
    /\ pre' = db
    /\ issued' = r.w
    /\ pc' = IF r.exc THEN "raised" ELSE "idle"
    /\ UNCHANGED <<asic_type, hwsku, config_src_data, init_db, version, next_version,
                   failed, commons, invocations, start_marker>>
    /\ UNCHANGED <<cli, faults>>

Call_migrate_restapi ==
    call_step("migrate_restapi", migrate_restapi(db)) /\ UNCHANGED mlnx_calls

Call_migrate_telemetry ==
    call_step("migrate_telemetry", migrate_telemetry(db)) /\ UNCHANGED mlnx_calls

Call_migrate_gnmi ==
    call_step("migrate_gnmi", migrate_gnmi(db)) /\ UNCHANGED mlnx_calls

Call_migrate_console_switch ==
    call_step("migrate_console_switch", migrate_console_switch(db)) /\ UNCHANGED mlnx_calls

Call_migrate_dns_nameserver ==
    call_step("migrate_dns_nameserver", migrate_dns_nameserver(db)) /\ UNCHANGED mlnx_calls

Call_migrate_tacplus ==
    call_step("migrate_tacplus", migrate_tacplus(db)) /\ UNCHANGED mlnx_calls

Call_migrate_aaa ==
    call_step("migrate_aaa", migrate_aaa(db)) /\ UNCHANGED mlnx_calls

Call_migrate_interface_table ==
    call_step("migrate_interface_table", migrate_interface_table(db)) /\ UNCHANGED mlnx_calls

Call_migrate_device_metadata ==
    call_step("migrate_device_metadata", migrate_device_metadata(db)) /\ UNCHANGED mlnx_calls

Call_migrate_routing_config_mode ==
    call_step("migrate_routing_config_mode", migrate_routing_config_mode(db))
    /\ UNCHANGED mlnx_calls

\* the transform called with the sub-migrator's defaults, as version_1_0_6 calls
\* it: it issues no store command; mlnx_calls holds its append and abandon calls
Call_migrate_config_db_buffer_tables_for_dynamic_calculation ==
    /\ call_step("migrate_config_db_buffer_tables_for_dynamic_calculation", Ok(db))
    /\ mlnx_calls' = migrate_config_db_buffer_tables_for_dynamic_calculation(
                         db, default_speed_list, default_cable_len_list, "0")

Call_update_edgezone_aggregator_config ==
    call_step("update_edgezone_aggregator_config", update_edgezone_aggregator_config(db))
        /\ UNCHANGED mlnx_calls

Call_migrate_feature_table ==
    call_step("migrate_feature_table", migrate_feature_table(db)) /\ UNCHANGED mlnx_calls

\* one direct call of the DHCP relay step under a choice of failing store operations
Call_migrate_dhcp_servers_to_dhcpv4_relay ==
    /\ pc = "idle"
    /\ handlers = <<>>
    /\ \E fault \in [table : BOOLEAN, vlan : [VlanNames -> FaultKinds]] :
           LET r == migrate_dhcp_servers_to_dhcpv4_relay(db, fault) IN
           \* only an operation that takes place fails
           /\ \A n \in VlanNames :
                  (fault.table \/ ~hexists(db, "configDB", <<"VLAN", n>>, "dhcp_servers")) =>
                      fault.vlan[n] = "none"
           /\ faults' = fault
           /\ db' = r.d
           /\ issued' = r.w
           /\ pc' = IF r.exc THEN "raised" ELSE "idle"
    /\ handlers' = Append(handlers, "migrate_dhcp_servers_to_dhcpv4_relay")
    /\ pre' = db
    /\ UNCHANGED <<asic_type, hwsku, config_src_data, init_db, version, next_version,
                   mlnx_calls, failed, commons, invocations, start_marker>>
    /\ UNCHANGED cli

Call_common_migration_ops ==
    call_step("common_migration_ops", common_migration_ops(db)) /\ UNCHANGED mlnx_calls

\* -o get_version: the operation returns the marker; version holds what it returned
Call_get_version ==
    /\ pc = "idle"
    /\ Len(handlers) < MaxCalls
    /\ IF handlers = <<>> THEN TRUE ELSE Last(handlers) = "get_version"
    /\ handlers' = Append(handlers, "get_version")
    /\ pre' = db
    /\ issued' = <<>>
    /\ IF get_version_raises(db)
       THEN pc' = "raised" /\ UNCHANGED version
       ELSE pc' = "idle" /\ version' = get_version(db)
    /\ UNCHANGED <<db, asic_type, hwsku, config_src_data, init_db, next_version, mlnx_calls,
                   failed, commons, invocations, start_marker>>
    /\ UNCHANGED <<cli, faults>>

\* -o set_version: the operation is called without argument
Call_set_version ==
    call_step("set_version", set_version(db, None)) /\ UNCHANGED mlnx_calls

NextSteps ==
    \/ Call_migrate_restapi
    \/ Call_migrate_telemetry
    \/ Call_migrate_gnmi
    \/ Call_migrate_console_switch
    \/ Call_migrate_dns_nameserver
    \/ Call_migrate_tacplus
    \/ Call_migrate_aaa
    \/ Call_migrate_interface_table
    \/ Call_migrate_device_metadata
    \/ Call_migrate_routing_config_mode
    \/ Call_migrate_config_db_buffer_tables_for_dynamic_calculation
    \/ Call_update_edgezone_aggregator_config
    \/ Call_migrate_feature_table
    \/ Call_migrate_dhcp_servers_to_dhcpv4_relay
    \/ Call_common_migration_ops
    \/ Call_get_version
    \/ Call_set_version

SpecSteps == InitSteps /\ [][NextSteps]_vars

-----------------------------------------------------------------------------
(* A version handler called directly, once or twice in a row, the          *)
(* sub-migrator answering the second call as it answered the first         *)

\* a store whose CONTAINER_FEATURE entry carries the status of a feature
StatusStores ==
    [BaseStores("version_1_0_3", FALSE) EXCEPT
        !.configDB = <<"FEATURE", "telemetry">> :> [state |-> "enabled"]
                     @@ <<"CONTAINER_FEATURE", "telemetry">> :> [status |-> "disabled"]
                     @@ @]

HandlerScenarios ==
    {Scenario(BaseStores("", warm), platform, src, InitCfg) :
        warm \in BOOLEAN, platform \in Platforms, src \in {<<>>, Snapshot}}
    \cup {Scenario(StatusStores, platform, <<>>, InitCfg) : platform \in Platforms}

InitHandlers ==
    /\ \E sc \in HandlerScenarios :
        /\ db = sc.db
        /\ pre = sc.db
        /\ asic_type = sc.asic_type
        /\ hwsku = sc.hwsku
        /\ config_src_data = sc.config_src_data
        /\ init_db = sc.init_db
    /\ Idle

Call_handler ==
    \E v \in Handlers : \E m \in Outcomes :
        LET r == dispatch(v, db, m) IN
        /\ IF handlers = <<>> THEN TRUE ELSE mlnx_calls = r.calls
        /\ call_step(v, r)
        /\ mlnx_calls' = r.calls

NextHandlers == Call_handler

SpecHandlers == InitHandlers /\ [][NextHandlers]_vars

-----------------------------------------------------------------------------
(* Properties of the handlers and steps called directly *)

\* C6: a handler called a second time right after its first call, the flags, the
\* snapshot and the sub-migrator's answers being the same, leaves every store as
\* the first call left it.
C6_HandlerIdempotent ==
    (pc = "idle" /\ Len(handlers) = 2 /\ handlers[1] \in Handlers /\ handlers[2] = handlers[1]) =>
        db = pre

\* the entries each snapshot fill-in step is responsible for
Governed(step) ==
    CASE step = "migrate_restapi" -> {<<"RESTAPI", "config">>, <<"RESTAPI", "certs">>}
      [] step = "migrate_telemetry" -> {<<"TELEMETRY", "gnmi">>, <<"TELEMETRY", "certs">>}
      [] step = "migrate_console_switch" -> {<<"CONSOLE_SWITCH", "console_mgmt">>}
      [] step = "migrate_tacplus" -> {<<"TACPLUS", "global">>}
      [] step = "migrate_aaa" -> {<<"AAA", "authentication">>, <<"AAA", "accounting">>}
      [] OTHER -> {}

has_fields(d, k) == DOMAIN raw_to_typed(get_all(d, "configDB", k)) # {}

\* an entry the step found without a field ends as the snapshot has it: with the
\* snapshot's fields, absent when the snapshot's table lacks the key, untouched
\* when there is no snapshot or the snapshot lacks the table
filled_from_snapshot(k) ==
    IF no_config_src(k[1])
    THEN get_all(db, "configDB", k) = get_all(pre, "configDB", k)
    ELSE IF k[2] \in DOMAIN config_src_data[k[1]]
    THEN /\ exists(db, "configDB", k)
         /\ raw_to_typed(get_all(db, "configDB", k)) = config_src_data[k[1]][k[2]]
    ELSE ~exists(db, "configDB", k)

C9_GnmiNeverOverwrites ==
    (handlers # <<>> /\ Last(handlers) = "migrate_gnmi") =>
        \A k \in {<<"GNMI", "gnmi">>, <<"GNMI", "certs">>} :
            has_fields(pre, k) => get_all(db, "configDB", k) = get_all(pre, "configDB", k)

\* C13: after migrate_interface_table, in each of INTERFACE,
\* PORTCHANNEL_INTERFACE, VLAN_INTERFACE and LOOPBACK_INTERFACE (an interface name
\* being in one table only), every address-keyed entry has an address-less entry
\* of its name in the same table; an address-less entry that was there is as it
\* was; one that was not carries the fields of an address-keyed entry of its
\* name; the address-keyed entries are as they were; and a second run leaves the
\* store as the first left it.
C13_AliasPerInterface ==
    (handlers # <<>> /\ Last(handlers) = "migrate_interface_table") =>
        /\ \A i \in 1..Len(if_tables) :
               LET old == get_table(pre, "configDB", if_tables[i])
                   new == get_table(db, "configDB", if_tables[i])
               IN /\ \A key \in DOMAIN new : Len(key) = 2 => <<key[1]>> \in DOMAIN new
                  /\ \A key \in DOMAIN old : key \in DOMAIN new /\ new[key] = old[key]
                  /\ \A key \in DOMAIN new \ DOMAIN old :
                         /\ Len(key) = 1
                         /\ \E from \in DOMAIN old :
                                Len(from) = 2 /\ from[1] = key[1] /\ new[key] = old[from]
        /\ Len(handlers) = 2 => db = pre

\* an alias is created for Vlan1000, and the alias Ethernet0 had is kept though its
\* address-keyed entries have other fields
C13_Witness ==
    /\ handlers = <<"migrate_interface_table">>
    /\ ~exists(pre, "configDB", <<"VLAN_INTERFACE", "Vlan1000">>)
    /\ exists(pre, "configDB", <<"VLAN_INTERFACE", "Vlan1000", "192.168.0.1/21">>)
    /\ get_all(db, "configDB", <<"VLAN_INTERFACE", "Vlan1000">>) = NullEntry
    /\ get_all(pre, "configDB", <<"INTERFACE", "Ethernet0">>) = [vrf_name |-> "Vrf1"]
    /\ get_all(pre, "configDB", <<"INTERFACE", "Ethernet0", "10.0.0.0/31">>) = [scope |-> "global"]
    /\ get_all(db, "configDB", <<"INTERFACE", "Ethernet0">>) = [vrf_name |-> "Vrf1"]

\* the common pass has just run to its end
common_pass_done ==
    handlers # <<>> /\ Last(handlers) = "common_migration_ops" /\ pc = "idle"

\* TACPLUS|global holds a passkey that is not the empty string
passkey_set(d) ==
    LET tacplus_config == get_entry(d, "configDB", "TACPLUS", <<"global">>) IN
    "passkey" \in DOMAIN tacplus_config /\ tacplus_config["passkey"] # ""

\* C15: when TACPLUS|global has an empty or missing passkey as the common pass
\* starts (and still has after the TACPLUS fill-in of the pass), no
\* AAA|authorization entry exists after the pass, whatever the snapshot is.
C15_NoAuthorizationWithoutPasskey ==
    (common_pass_done /\ ~passkey_set(pre) /\ ~passkey_set(db)) =>
        ~exists(db, "configDB", <<"AAA", "authorization">>)

\* a write of fields to AAA|authorization among the commands
wrote_authorization(cmds) ==
    \E i \in 1..Len(cmds) :
        /\ cmds[i].store = "configDB"
        /\ cmds[i].cmd = "hmset"
        /\ cmds[i].key = <<"AAA", "authorization">>

\* C16: the common pass writes AAA|authorization only when TACPLUS|global holds
\* a non-empty passkey after the TACPLUS fill-in of the pass and AAA|authorization
\* held no field, and what it writes is the snapshot's authorization entry; an
\* AAA|authorization entry that held fields is exactly as it was when the
\* passkey is non-empty.
C16_AuthorizationDefaultNeedsPasskey ==
    common_pass_done =>
        LET k == <<"AAA", "authorization">> IN
        /\ wrote_authorization(issued) =>
               /\ passkey_set(db)
               /\ ~has_fields(pre, k)
               /\ ~no_config_src("AAA")
               /\ "authorization" \in DOMAIN config_src_data["AAA"]
               /\ get_all(db, "configDB", k) = config_src_data["AAA"]["authorization"]
        /\ (passkey_set(db) /\ has_fields(pre, k)) =>
               get_all(db, "configDB", k) = get_all(pre, "configDB", k)

\* the passkey came from the snapshot in the same pass, and the default was written
C16_Witness ==
    /\ common_pass_done
    /\ ~exists(pre, "configDB", <<"TACPLUS", "global">>)
    /\ ~exists(pre, "configDB", <<"AAA", "authorization">>)
    /\ passkey_set(db)
    /\ wrote_authorization(issued)
    /\ get_all(db, "configDB", <<"AAA", "authorization">>) = Snapshot["AAA"]["authorization"]

\* common_migration_ops was the last call and got past reading init_cfg.json
common_pass_merged ==
    handlers # <<>> /\ Last(handlers) = "common_migration_ops" /\ init_db.readable

\* C18: the common pass starts with the init-config merge, and for every table
\* and key of init_cfg.json the entry the merge leaves has every field the entry
\* had, with the value it had, and every other field of the default entry with
\* the default's value, and no further field.
C18_InitCfgMergeKeepsExisting ==
    common_pass_merged =>
        LET merged == merge_init_cfg(pre) IN
        /\ Len(issued) >= Len(merged.w)
        /\ SubSeq(issued, 1, Len(merged.w)) = merged.w
        /\ \A t \in DOMAIN init_db.tables : \A key \in DOMAIN init_db.tables[t] :
               LET old == get_entry(pre, "configDB", t, <<key>>)
                   new == get_entry(merged.d, "configDB", t, <<key>>)
                   init_cfg == init_db.tables[t][key]
               IN /\ DOMAIN new = DOMAIN old \cup DOMAIN init_cfg
                  /\ \A f \in DOMAIN old : new[f] = old[f]
                  /\ \A f \in DOMAIN init_cfg \ DOMAIN old : new[f] = init_cfg[f]

\* the device type the operator set stays, the default BGP status is added
C18_Witness ==
    /\ common_pass_done
    /\ config_src_data = <<>>
    /\ get_entry(pre, "configDB", "DEVICE_METADATA", <<"localhost">>) = [type |-> "ToRRouter"]
    /\ InitCfg.tables["DEVICE_METADATA"]["localhost"]["type"] = "LeafRouter"
    /\ get_entry(db, "configDB", "DEVICE_METADATA", <<"localhost">>)
           = [type |-> "ToRRouter", default_bgp_status |-> "up"]

\* C19: a common_migration_ops that follows a common_migration_ops on the same
\* init_cfg.json, snapshot, platform and warm-restart flag leaves every store,
\* the count of PORT_TABLE:PortConfigDone and CABLE_LENGTH|AZURE included, as
\* the first left it.
C19_CommonPassIdempotent ==
    (common_pass_done /\ Len(handlers) >= 2) => db = pre

\* a warm S6100 facing an EdgeZone aggregator: the first pass added the two
\* management ports to the count and set the cable length, the second kept both
C19_Witness ==
    /\ common_pass_done
    /\ Len(handlers) = 2
    /\ asic_type = "broadcom" /\ is_s6100(hwsku)
    /\ is_warm_restart_enabled(db, "swss")
    /\ BaseAppDB[<<"PORT_TABLE", "PortConfigDone">>]["count"] = "2"
    /\ get(db, "appDB", <<"PORT_TABLE", "PortConfigDone">>, "count") = {"4"}
    /\ exists(db, "configDB", <<"PORT", "Ethernet64">>)
    /\ get(db, "configDB", <<"CABLE_LENGTH", "AZURE">>, "Ethernet0") = {EDGEZONE_AGG_CABLE_LENGTH}
    /\ get(db, "configDB", <<"CABLE_LENGTH", "AZURE">>, "Ethernet4") = {"300m"}

\* every entry of every store but VERSIONS|DATABASE is as it was
only_marker_changed ==
    \A store \in StoreNames :
        \A k \in (DOMAIN pre[store] \cup DOMAIN db[store])
                  \ (IF store = "configDB" THEN {<<"VERSIONS", "DATABASE">>} ELSE {}) :
            /\ k \in DOMAIN pre[store]
            /\ k \in DOMAIN db[store]
            /\ db[store][k] = pre[store][k]

\* C20: get_version issues no command and leaves every store as it was, and it
\* returns the VERSION of VERSIONS|DATABASE when that is a non-empty string and
\* version_unknown when the entry is missing, holds no field, or its VERSION is
\* empty; set_version called without argument leaves VERSIONS|DATABASE with
\* VERSION = version_202505_01 whatever the marker was, and every other entry of
\* every store as it was.
C20_VersionAccessors ==
    /\ (handlers # <<>> /\ Last(handlers) = "get_version" /\ pc = "idle") =>
           /\ db = pre
           /\ issued = <<>>
           /\ LET marker == get_all(pre, "configDB", <<"VERSIONS", "DATABASE">>) IN
              version = IF "VERSION" \in DOMAIN marker /\ marker["VERSION"] # ""
                        THEN marker["VERSION"] ELSE "version_unknown"
    /\ (handlers # <<>> /\ Last(handlers) = "set_version") =>
           /\ pc = "idle"
           /\ get(db, "configDB", <<"VERSIONS", "DATABASE">>, "VERSION") = {"version_202505_01"}
           /\ only_marker_changed

\* set_version() on a store whose marker was version_1_0_1
C20_Witness ==
    /\ handlers = <<"set_version">>
    /\ get(pre, "configDB", <<"VERSIONS", "DATABASE">>, "VERSION") = {"version_1_0_1"}
    /\ get(db, "configDB", <<"VERSIONS", "DATABASE">>, "VERSION") = {"version_202505_01"}
    /\ exists(db, "configDB", <<"PORT", "Ethernet0">>)

\* the snapshot table each snapshot-driven step reads
SnapshotTable ==
    [migrate_restapi |-> "RESTAPI", migrate_telemetry |-> "TELEMETRY",
     migrate_console_switch |-> "CONSOLE_SWITCH", migrate_device_metadata |-> "DEVICE_METADATA",
     migrate_dns_nameserver |-> "DNS_NAMESERVER",
     migrate_routing_config_mode |-> "DEVICE_METADATA", migrate_tacplus |-> "TACPLUS"]

\* C24: when there is no snapshot, or the snapshot lacks the table the step
\* reads, migrate_restapi, migrate_telemetry, migrate_console_switch,
\* migrate_device_metadata, migrate_dns_nameserver, migrate_routing_config_mode
\* and migrate_tacplus return without raising, issue no store command and leave
\* every store as it was.
C24_MissingInputsNeverFatal ==
    (handlers # <<>> /\ Last(handlers) \in DOMAIN SnapshotTable
        /\ (config_src_data = <<>>
            \/ SnapshotTable[Last(handlers)] \notin DOMAIN config_src_data)) =>
        /\ pc = "idle"
        /\ issued = <<>>
        /\ db = pre

\* a snapshot without DEVICE_METADATA on a device that has its own metadata
C24_Witness ==
    /\ handlers = <<"migrate_device_metadata">>
    /\ config_src_data # <<>>
    /\ "DEVICE_METADATA" \notin DOMAIN config_src_data
    /\ "synchronous_mode" \notin
           DOMAIN get_entry(db, "configDB", "DEVICE_METADATA", <<"localhost">>)
    /\ exists(db, "configDB", <<"DEVICE_METADATA", "localhost">>)
    /\ pc = "idle"

\* BUFFER_PG, PORT and CABLE_LENGTH are non-empty and every BUFFER_PG entry is
\* queue '0' with ingress_lossy_profile or queue '3-4' with the pg_lossless
\* profile of its port's speed and cable length
gate_passes(d) ==
    LET buffer_pgs == get_table(d, "configDB", "BUFFER_PG")
        ports == get_table(d, "configDB", "PORT")
        cable == get_entry(d, "configDB", "CABLE_LENGTH", <<"AZURE">>)
    IN /\ DOMAIN buffer_pgs # {}
       /\ DOMAIN ports # {}
       /\ DOMAIN get_table(d, "configDB", "CABLE_LENGTH") # {}
       /\ \A name \in DOMAIN buffer_pgs :
              LET ref == dict_get(buffer_pgs[name], "profile") IN
              \/ name[2] = "0" /\ ref = {"[BUFFER_PROFILE|ingress_lossy_profile]"}
              \/ /\ name[2] = "3-4"
                 /\ <<name[1]>> \in DOMAIN ports
                 /\ \E speed \in dict_get(ports[<<name[1]>>], "speed") :
                    \E len \in dict_get(cable, name[1]) :
                        ref = {"[BUFFER_PROFILE|pg_lossless_" \o speed \o "_" \o len \o "_profile]"}

\* an append of one of the edits that enable dynamic mode
enables_dynamic(c) ==
    /\ c.call = "append"
    /\ c.table \in {"DEVICE_METADATA", "DEFAULT_LOSSLESS_BUFFER_PARAMETER",
                     "LOSSLESS_TRAFFIC_PATTERN"}

transform_called ==
    /\ handlers # <<>>
    /\ Last(handlers) = "migrate_config_db_buffer_tables_for_dynamic_calculation"

\* C29: the transform appends an edit that enables dynamic mode only when
\* BUFFER_PG, PORT and CABLE_LENGTH are non-empty and every BUFFER_PG entry is
\* queue '0' with ingress_lossy_profile or queue '3-4' with the pg_lossless
\* profile of its port's speed and cable length; on any other store it calls
\* abandon exactly once, as its last call.
C29_StrictGate ==
    transform_called =>
        LET abandons == {i \in 1..Len(mlnx_calls) : mlnx_calls[i].call = "abandon"} IN
        /\ (\E i \in 1..Len(mlnx_calls) : enables_dynamic(mlnx_calls[i])) => gate_passes(pre)
        /\ ~gate_passes(pre) => abandons = {Len(mlnx_calls)}

\* both ports pass: two BUFFER_PG edits and the three enabling edits are pending
C29_Witness ==
    /\ transform_called
    /\ gate_passes(pre)
    /\ exists(pre, "configDB", <<"BUFFER_PG", "Ethernet0", "3-4">>)
    /\ exists(pre, "configDB", <<"BUFFER_PG", "Ethernet4", "3-4">>)
    /\ Cardinality({i \in 1..Len(mlnx_calls) : enables_dynamic(mlnx_calls[i])}) = 3
    /\ \E i \in 1..Len(mlnx_calls) :
           mlnx_calls[i] = append_item("DEVICE_METADATA", <<"localhost">>,
                                       {[type |-> "ToRRouter", buffer_model |-> "dynamic"]})

\* C30: when version_1_0_6 ran the dynamic-buffer transform on a store that
\* makes it abandon, and every delegated call of the handler succeeded, the
\* handler wrote the marker version_2_0_0.
C30_AbandonStillAdvances ==
    (dynamic_transform_ran /\ ~gate_passes(pre)
        /\ \A i \in 1..Len(mlnx_calls) : mlnx_calls[i].result) =>
        /\ wrote_marker(issued, "version_2_0_0")
        /\ get_all(db, "configDB", <<"VERSIONS", "DATABASE">>) = [VERSION |-> "version_2_0_0"]
        /\ next_version = "version_2_0_0"

\* a cable length that does not match the profile of the lossless priority group
C30_Witness ==
    /\ dynamic_transform_ran
    /\ exists(pre, "configDB", <<"BUFFER_PG", "Ethernet0", "3-4">>)
    /\ get(pre, "configDB", <<"CABLE_LENGTH", "AZURE">>, "Ethernet0") = {"40m"}
    /\ ~gate_passes(pre)
    /\ \E i \in 1..Len(mlnx_calls) : mlnx_calls[i] = call("flush", TRUE)
    /\ get_all(pre, "configDB", <<"VERSIONS", "DATABASE">>) = [VERSION |-> "version_1_0_6"]
    /\ get_all(db, "configDB", <<"VERSIONS", "DATABASE">>) = [VERSION |-> "version_2_0_0"]

\* the COPP_TABLE:* keys of the runtime store
copp_keys(d) == {k \in DOMAIN d.appDB : k[1] = "COPP_TABLE" /\ Len(k) > 1}

\* the keys of a store the commands delete
deleted_keys(cmds, store) ==
    {cmds[i].key : i \in {j \in 1..Len(cmds) : cmds[j].store = store /\ cmds[j].cmd = "del"}}

\* C33: after a common pass that read init_cfg.json, on mellanox every
\* COPP_TABLE:* key of the runtime store is there as it was and no command named
\* one; on every other platform the runtime store has no COPP_TABLE:* key, each
\* one it had was deleted by one command, and no other key of the runtime store
\* was deleted or is gone.
C33_CoppCleanupByPlatform ==
    common_pass_merged =>
        IF asic_type = "mellanox"
        THEN /\ \A k \in copp_keys(pre) : k \in DOMAIN db.appDB /\ db.appDB[k] = pre.appDB[k]
             /\ \A i \in 1..Len(issued) :
                    ~(issued[i].store = "appDB" /\ issued[i].key[1] = "COPP_TABLE")
        ELSE /\ copp_keys(db) = {}
             /\ deleted_keys(issued, "appDB") = copp_keys(pre)
             /\ DOMAIN pre.appDB \ DOMAIN db.appDB = copp_keys(pre)
             /\ \A i \in 1..Len(issued) :
                    (issued[i].store = "appDB" /\ issued[i].cmd = "hdel") =>
                        issued[i].key \in DOMAIN db.appDB

\* the pass on a warm S6100: two COPP keys gone, the port table grown
C33_Witness ==
    /\ common_pass_done
    /\ Len(handlers) = 1
    /\ asic_type = "broadcom"
    /\ Cardinality(copp_keys(pre)) = 2
    /\ copp_keys(db) = {}
    /\ <<"PORT_TABLE", "Ethernet64">> \in DOMAIN db.appDB \ DOMAIN pre.appDB
    /\ <<"INTF_TABLE", "lo", "10.1.0.32/32">> \in DOMAIN db.appDB

\* the pass on mellanox: both COPP keys kept
C33_WitnessMellanox ==
    /\ common_pass_done
    /\ asic_type = "mellanox"
    /\ Cardinality(copp_keys(pre)) = 2
    /\ copp_keys(db) = copp_keys(pre)

\* the entries of the port tables of both stores
port_entries(d) ==
    [configDB |-> Restrict(d.configDB, {k \in DOMAIN d.configDB : k[1] = "PORT"}),
     appDB |-> Restrict(d.appDB, {k \in DOMAIN d.appDB : k[1] = "PORT_TABLE"})]

s6100_acts(d) ==
    asic_type = "broadcom" /\ is_s6100(hwsku) /\ is_warm_restart_enabled(d, "swss")

\* the management ports the config store lacks
s6100_absent(d) == {q \in S6100Ports : <<"PORT", q>> \notin DOMAIN d.configDB}

\* C34: after a common pass that read init_cfg.json, the port tables of both
\* stores are as before unless the platform is broadcom with a Force10-S6100
\* SKU and warm restart is enabled; then every management port the config store
\* had is as it was in both stores, every one it lacked is in the config store
\* with its fixed fields and in the runtime store with them and admin_status
\* 'down', and PORT_TABLE:PortConfigDone.count is the count before plus the
\* number of ports added.
C34_S6100FixUp ==
    (common_pass_merged /\ Len(handlers) = 1) =>
        IF ~s6100_acts(pre) THEN port_entries(db) = port_entries(pre)
        ELSE /\ \A q \in S6100Ports \ s6100_absent(pre) :
                    /\ db.configDB[<<"PORT", q>>] = pre.configDB[<<"PORT", q>>]
                    /\ <<"PORT_TABLE", q>> \in DOMAIN pre.appDB =>
                           db.appDB[<<"PORT_TABLE", q>>] = pre.appDB[<<"PORT_TABLE", q>>]
             /\ \A q \in s6100_absent(pre) :
                    /\ get_all(db, "configDB", <<"PORT", q>>) = s6100_entries[q]
                    /\ get_all(db, "appDB", <<"PORT_TABLE", q>>)
                           = [admin_status |-> "down"] @@ s6100_entries[q]
             /\ \E c \in get(pre, "appDB", <<"PORT_TABLE", "PortConfigDone">>, "count") :
                    /\ IsCount(c)
                    /\ get(db, "appDB", <<"PORT_TABLE", "PortConfigDone">>, "count")
                           = {str(int(c) + Cardinality(s6100_absent(pre)))}
             /\ \A k \in DOMAIN port_entries(db).configDB \cup DOMAIN port_entries(pre).configDB :
                    k \notin {<<"PORT", q>> : q \in S6100Ports} =>
                        get_all(db, "configDB", k) = get_all(pre, "configDB", k)

\* C34 where the runtime store holds the port count
C34_S6100FixUpCounted ==
    get(pre, "appDB", <<"PORT_TABLE", "PortConfigDone">>, "count") # {} => C34_S6100FixUp

\* the fix-up added Ethernet65 only and counted one port more
C34_Witness ==
    /\ common_pass_done
    /\ Len(handlers) = 1
    /\ s6100_acts(pre)
    /\ s6100_absent(pre) = {"Ethernet65"}
    /\ get(pre, "appDB", <<"PORT_TABLE", "PortConfigDone">>, "count") = {"2"}
    /\ get(db, "appDB", <<"PORT_TABLE", "PortConfigDone">>, "count") = {"3"}
    /\ get(db, "configDB", <<"PORT", "Ethernet64">>, "speed") = {"1000"}
    /\ get(db, "appDB", <<"PORT_TABLE", "Ethernet65">>, "admin_status") = {"down"}

edgezone_called ==
    handlers # <<>> /\ Last(handlers) = "update_edgezone_aggregator_config"

\* the neighbors whose DEVICE_NEIGHBOR_METADATA type is EdgeZoneAggregator
edgezone_neighbors(d) ==
    {k[2] : k \in {k \in DOMAIN d.configDB :
        k[1] = "DEVICE_NEIGHBOR_METADATA" /\ Len(k) = 2
            /\ dict_get(d.configDB[k], "type") = {"EdgeZoneAggregator"}}}

cable_lengths(d) == get_all(d, "configDB", <<"CABLE_LENGTH", "AZURE">>)

\* the interfaces of CABLE_LENGTH|AZURE that DEVICE_NEIGHBOR connects to such a neighbor
affected_interfaces(d) ==
    {intf \in DOMAIN cable_lengths(d) :
        /\ <<"DEVICE_NEIGHBOR", intf>> \in DOMAIN d.configDB
        /\ dict_get(d.configDB[<<"DEVICE_NEIGHBOR", intf>>], "name") # {}
        /\ dict_get(d.configDB[<<"DEVICE_NEIGHBOR", intf>>], "name") \subseteq edgezone_neighbors(d)}

differ(lengths, intfs) == \E i, j \in intfs : lengths[i] # lengths[j]

\* every command sets a field of CABLE_LENGTH|AZURE of an affected interface to 40m
writes_affected_only ==
    \A i \in 1..Len(issued) :
        \E intf \in affected_interfaces(pre) :
            issued[i] = hset("configDB", <<"CABLE_LENGTH", "AZURE">>, intf, "40m")

\* C35 (as stated): update_edgezone_aggregator_config writes 40m to fields of
\* CABLE_LENGTH|AZURE of affected interfaces only, only when an EdgeZone
\* aggregator neighbor exists and only when the affected interfaces do not all
\* have the same cable length.
C35_CableLengthAcrossAffected ==
    edgezone_called =>
        /\ writes_affected_only
        /\ issued # <<>> =>
               /\ edgezone_neighbors(pre) # {}
               /\ differ(cable_lengths(pre), affected_interfaces(pre))

\* C35 (amended): it writes 40m to fields of CABLE_LENGTH|AZURE of affected
\* interfaces only, only when an EdgeZone aggregator neighbor exists and only
\* when the fields of CABLE_LENGTH|AZURE, affected or not, do not all have the
\* same value; then every affected interface is set to 40m and every other
\* field keeps its value; when all fields have one value nothing is written.
C35_CableLengthAcrossEntry ==
    edgezone_called =>
        LET lengths == cable_lengths(pre)
            acts == edgezone_neighbors(pre) # {} /\ differ(lengths, DOMAIN lengths)
        IN /\ writes_affected_only
           /\ issued # <<>> => acts
           /\ acts => \A intf \in DOMAIN lengths :
                          get(db, "configDB", <<"CABLE_LENGTH", "AZURE">>, intf)
                              = IF intf \in affected_interfaces(pre) THEN {"40m"}
                                ELSE {lengths[intf]}
           /\ ~acts => db = pre

\* two affected interfaces that shared 5m are set to 40m because a third,
\* unaffected interface has 300m
C35_Witness ==
    /\ edgezone_called
    /\ pc = "idle"
    /\ Len(handlers) = 1
    /\ affected_interfaces(pre) = {"Ethernet0", "Ethernet8"}
    /\ cable_lengths(pre) = [Ethernet0 |-> "5m", Ethernet8 |-> "5m", Ethernet4 |-> "300m"]
    /\ cable_lengths(db) = [Ethernet0 |-> "40m", Ethernet8 |-> "40m", Ethernet4 |-> "300m"]

gnmi_called == handlers # <<>> /\ Last(handlers) = "migrate_gnmi"

telemetry_table(d) == Restrict(d.configDB, {k \in DOMAIN d.configDB : k[1] = "TELEMETRY"})

feature_table_called == handlers # <<>> /\ Last(handlers) = "migrate_feature_table"

\* the names a table of the config store has an entry for
names_in(d, table) == {k[2] : k \in {k \in DOMAIN d.configDB : k[1] = table /\ Len(k) = 2}}

\* the fields of a feature in both tables, 'status' under the name 'state'
merged_feature(d, n) ==
    LET feature == get_entry(d, "configDB", "FEATURE", <<n>>)
        container == get_entry(d, "configDB", "CONTAINER_FEATURE", <<n>>)
    IN [f \in (DOMAIN feature \ {"status"}) \cup DOMAIN container
               \cup (IF "status" \in DOMAIN feature THEN {"state"} ELSE {}) |->
           IF f \in DOMAIN container THEN container[f]
           ELSE IF f = "state" /\ "status" \in DOMAIN feature THEN feature["status"]
           ELSE feature[f]]

dhcp_relay_called ==
    handlers # <<>> /\ Last(handlers) = "migrate_dhcp_servers_to_dhcpv4_relay"

vlan_entry(d, n) == get_entry(d, "configDB", "VLAN", <<n>>)

relay_entry(d, n) == get_entry(d, "configDB", "DHCPV4_RELAY", <<n>>)

\* the command removes dhcp_servers from the entry of VLAN n
removes_dhcp_servers(c, n) ==
    c.store = "configDB" /\ c.key = <<"VLAN", n>>
        /\ (c.cmd = "del" \/ (c.cmd = "hdel" /\ "dhcp_servers" \in DOMAIN c.hash))

\* the failure the VLAN met: the read-back of DHCPV4_RELAY failed or a write raised
vlan_failed(n) ==
    \/ faults.vlan[n] = "raise_vlan"
    \/ faults.vlan[n] \in {"lost", "raise_relay"} /\ "dhcpv4_servers" \notin DOMAIN relay_entry(pre, n)

\* C39: in migrate_dhcp_servers_to_dhcpv4_relay every command that removes
\* dhcp_servers from a VLAN finds DHCPV4_RELAY|<vlan> with dhcpv4_servers; a VLAN
\* that lost dhcp_servers has DHCPV4_RELAY|<vlan> as it was if that had
\* dhcpv4_servers, and else as it was plus dhcpv4_servers with the value
\* dhcp_servers had; a VLAN whose read-back failed or for which a write raised
\* is as it was; and every other VLAN with dhcp_servers has lost it and kept its
\* other fields, whatever happened to the VLANs before it.
C39_DhcpServersNeverLost ==
    dhcp_relay_called =>
        /\ pc = "idle"
        /\ \A i \in 1..Len(issued) : \A n \in VlanNames :
               removes_dhcp_servers(issued[i], n) =>
                   "dhcpv4_servers" \in
                       DOMAIN relay_entry(ApplyAll(pre, SubSeq(issued, 1, i - 1)), n)
        /\ \A n \in VlanNames :
               "dhcp_servers" \in DOMAIN vlan_entry(pre, n) =>
                   IF "dhcp_servers" \notin DOMAIN vlan_entry(db, n)
                   THEN /\ relay_entry(db, n)
                              = IF "dhcpv4_servers" \in DOMAIN relay_entry(pre, n)
                                THEN relay_entry(pre, n)
                                ELSE [dhcpv4_servers |-> vlan_entry(pre, n)["dhcp_servers"]]
                                     @@ relay_entry(pre, n)
                        /\ vlan_entry(db, n) = Without(vlan_entry(pre, n), "dhcp_servers")
                        /\ ~faults.table /\ ~vlan_failed(n)
                   ELSE /\ vlan_entry(db, n) = vlan_entry(pre, n)
                        /\ faults.table \/ vlan_failed(n)

\* the read-back failed for Vlan1000, which keeps dhcp_servers; Vlan2000 was migrated
C39_Witness ==
    /\ dhcp_relay_called
    /\ ~faults.table
    /\ faults.vlan = [Vlan1000 |-> "lost", Vlan2000 |-> "none"]
    /\ \A n \in VlanNames : "dhcp_servers" \in DOMAIN vlan_entry(pre, n)
    /\ \A n \in VlanNames : "dhcpv4_servers" \notin DOMAIN relay_entry(pre, n)
    /\ vlan_entry(db, "Vlan1000") = vlan_entry(pre, "Vlan1000")
    /\ ~exists(db, "configDB", <<"DHCPV4_RELAY", "Vlan1000">>)
    /\ vlan_entry(db, "Vlan2000") = [vlanid |-> "1000"]
    /\ relay_entry(db, "Vlan2000") = [dhcpv4_servers |-> "192.0.0.1,192.0.0.2"]

dns_keys(d) == {k \in DOMAIN d["configDB"] : k[1] = "DNS_NAMESERVER"}

\* C10 as stated: after migrate_dns_nameserver with a snapshot that has
\* DNS_NAMESERVER, every nameserver of the snapshot that the store lacked is
\* there with the snapshot's value, and every nameserver the store had is as it was.
C10_DnsPerKey ==
    (handlers # <<>> /\ Last(handlers) = "migrate_dns_nameserver"
     /\ ~no_config_src("DNS_NAMESERVER")) =>
        /\ \A addr \in DOMAIN config_src_data["DNS_NAMESERVER"] :
               <<"DNS_NAMESERVER", addr>> \notin dns_keys(pre) =>
                   /\ <<"DNS_NAMESERVER", addr>> \in dns_keys(db)
                   /\ get_entry(db, "configDB", "DNS_NAMESERVER", <<addr>>)
                          = config_src_data["DNS_NAMESERVER"][addr]
        /\ \A k \in dns_keys(pre) :
               get_all(db, "configDB", k) = get_all(pre, "configDB", k)

\* C10 as amended: the fill-in is per table.  When the store had no nameserver
\* at all, its nameservers afterwards are those of the snapshot, each with the
\* snapshot's value; when it had any, the table is as it was and no nameserver
\* of the snapshot is added.
C10_DnsPerTable ==
    (handlers # <<>> /\ Last(handlers) = "migrate_dns_nameserver"
     /\ ~no_config_src("DNS_NAMESERVER")) =>
        IF dns_keys(pre) = {}
        THEN /\ dns_keys(db) = {<<"DNS_NAMESERVER", addr>> :
                                   addr \in DOMAIN config_src_data["DNS_NAMESERVER"]}
             /\ \A addr \in DOMAIN config_src_data["DNS_NAMESERVER"] :
                    get_entry(db, "configDB", "DNS_NAMESERVER", <<addr>>)
                        = config_src_data["DNS_NAMESERVER"][addr]
        ELSE /\ dns_keys(db) = dns_keys(pre)
             /\ \A k \in dns_keys(pre) :
                    get_all(db, "configDB", k) = get_all(pre, "configDB", k)

C10_Witness ==
    /\ handlers = <<"migrate_dns_nameserver">>
    /\ ~no_config_src("DNS_NAMESERVER")
    /\ DOMAIN config_src_data["DNS_NAMESERVER"] = {"1.1.1.1", "8.8.8.8"}
    /\ dns_keys(pre) = {<<"DNS_NAMESERVER", "1.1.1.1">>}
    /\ dns_keys(db) = {<<"DNS_NAMESERVER", "1.1.1.1">>}

-----------------------------------------------------------------------------
(* migrate() interrupted: the process dies right after one of the redis    *)
(* commands of a handler or of the common pass, and migrate() is invoked   *)
(* again on the stores it left                                             *)

CrashScenarios ==
    {Scenario(BaseStores("", warm), platform, <<>>, InitCfg) :
        warm \in BOOLEAN, platform \in {<<"broadcom", "Force10-S6100">>, <<"barefoot", "montara">>}}
    \cup {Scenario(BaseStores(marker, FALSE), <<"barefoot", "montara">>, <<>>, InitCfg) :
        marker \in {"version_1_0_1", "version_3_0_0", "get_version", "version_9_9_9"}}

InitCrash ==
    /\ \E sc \in CrashScenarios :
        /\ db = sc.db
        /\ pre = sc.db
        /\ asic_type = sc.asic_type
        /\ hwsku = sc.hwsku
        /\ config_src_data = sc.config_src_data
        /\ init_db = sc.init_db
    /\ Idle

\* the process dies when the commands of done have been applied
crash_after(done) ==
    /\ db' = ApplyAll(db, done)
    /\ pre' = db
    /\ issued' = done
    /\ pc' = "crashed"
    /\ UNCHANGED <<asic_type, hwsku, config_src_data, init_db, version, next_version,
                   mlnx_calls, failed, commons, invocations, start_marker>>
    /\ UNCHANGED <<cli, faults>>

\* the first migrate() is the one interrupted
Crash_in_handler ==
    /\ pc = "loop"
    /\ invocations = 1
    /\ version \in Handlers
    /\ \E m \in Outcomes :
        LET r == dispatch(version, db, m) IN
        \E n \in 1..Len(r.w) : crash_after(SubSeq(r.w, 1, n))
    /\ handlers' = Append(handlers, version)

Crash_in_common_migration_ops ==
    /\ pc = "common"
    /\ invocations = 1
    /\ LET r == common_migration_ops(db) IN
       \E n \in 1..Len(r.w) : crash_after(SubSeq(r.w, 1, n))
    /\ UNCHANGED handlers

NextCrash ==
    \/ Next
    \/ Crash_in_handler
    \/ Crash_in_common_migration_ops

SpecCrash == InitCrash /\ [][NextCrash]_vars

\* migrate() from the top of its loop with `version` v to its end, the
\* sub-migrator answering m: the stores it leaves and whether it returned
RECURSIVE run_loop(_, _, _)
\* the stores as they are after some but not necessarily all of the writes of
\* the running handler or common pass: what another client of the stores reads
\* at that point
between_writes == pc = "crashed"

\* a PORT entry whose autoneg was '1': autoneg is already 'on', adv_speeds is
\* not yet there
torn_port(k) ==
    LET old == get_all(pre, "configDB", k)
        seen == get_all(db, "configDB", k)
    IN /\ k[1] = "PORT"
       /\ dict_get(old, "autoneg") = {"1"}
       /\ "speed" \in DOMAIN old
       /\ "adv_speeds" \notin DOMAIN old
       /\ dict_get(seen, "autoneg") = {"on"}
       /\ "adv_speeds" \notin DOMAIN seen

\* a LOGGER entry that holds LOGLEVEL and not LOGOUTPUT
torn_logger(k) ==
    LET seen == get_all(db, "configDB", k) IN
    /\ k[1] = "LOGGER"
    /\ "LOGLEVEL" \in DOMAIN seen
    /\ "LOGOUTPUT" \notin DOMAIN seen

\* C28: at no point between two store writes of a step does the config store
\* hold an entry partly transformed: no PORT entry with autoneg 'on' whose
\* adv_speeds is still to be added, no LOGGER entry with LOGLEVEL and without
\* LOGOUTPUT.
C28_NoTornEntries ==
    between_writes =>
        \A k \in DOMAIN db.configDB : ~torn_port(k) /\ ~torn_logger(k)

run_loop(v, d, m) ==
    IF v = None
    THEN LET r == common_migration_ops(d) IN [d |-> r.d, returned |-> ~r.exc]
    ELSE IF v \notin Handlers THEN [d |-> d, returned |-> FALSE]
    ELSE LET r == dispatch(v, d, m) IN
         IF r.exc \/ stuck(r.ret, v) THEN [d |-> r.d, returned |-> FALSE]
         ELSE run_loop(r.ret, r.d, m)

\* one whole migrate() on the stores d
migrate(d, m) ==
    IF get_version_raises(d) THEN [d |-> d, returned |-> FALSE]
    ELSE run_loop(get_version(d), d, m)

\* C7: when migrate() was interrupted after a store write, a new migrate() that
\* runs to completion on the stores it left ends with the stores that the
\* interrupted one would have ended with had it gone on.
C7_CrashResumeConverges ==
    pc = "crashed" =>
        \A m \in Outcomes :
            LET again == migrate(db, m)
                once == run_loop(version, pre, m)
            IN (again.returned /\ once.returned) => again.d = once.d

-----------------------------------------------------------------------------
(* clear/portchannel.py: clear portchannel statistics [<portchannel_name>  *)
(* [<port_name>]].  A command line is the tuple of the parts the code      *)
(* concatenates, a printed line the tuple of the message and its arguments. *)

LagNames == {"Po5", "PortChannel1", "PortChannel2", "PortChannel10"}

MemberNames == {"Ethernet0"}

\* what natsort compares of 'LAG_TABLE|<name>': the text before the number, by
\* its place in code-point order ('LAG_TABLE|Po' is before 'LAG_TABLE|PortChannel'),
\* then the number
natural_key ==
    [Po5 |-> <<1, 5>>, PortChannel1 |-> <<2, 1>>, PortChannel2 |-> <<2, 2>>,
     PortChannel10 |-> <<2, 10>>]

natural_before(a, b) ==
    \/ natural_key[a][1] < natural_key[b][1]
    \/ natural_key[a][1] = natural_key[b][1] /\ natural_key[a][2] < natural_key[b][2]

\* natsorted(keys) for keys of the form <<table, name>>
RECURSIVE natsorted(_)
natsorted(keys) ==
    IF keys = {} THEN <<>>
    ELSE LET first == CHOOSE k \in keys : \A o \in keys \ {k} : natural_before(k[2], o[2])
         IN <<first>> \o natsorted(keys \ {first})

\* clicommon.run_command(command, shell=True): returns, or raises when the
\* command fails
run_command(command, ok) == [command |-> command, ok |-> ok, exc |-> ~ok]

check_portchannel_name_member_port_exists(d, portchannel_name, port_name) ==
    IF ~exists(d, "stateDB", <<"LAG_TABLE", portchannel_name>>) THEN FALSE
    ELSE IF port_name # None
            /\ ~exists(d, "stateDB", <<"LAG_MEMBER_TABLE", portchannel_name, port_name>>)
    THEN FALSE
    ELSE TRUE

\* the branch for all LAGs ending its loop at the first LAG that fails
clear_all_until_failure(d, m) ==
    LET lag_keys == {k \in DOMAIN d.stateDB : k[1] = "LAG_TABLE" /\ Len(k) > 1}
        loop[i \in 0..Cardinality(lag_keys)] ==
            IF i = 0 THEN [commands |-> <<>>, echoed |-> <<>>, cleared |-> TRUE]
            ELSE LET prev == loop[i - 1]
                     lag_key == natsorted(lag_keys)[i]
                     lag_name == lag_key[Len(lag_key)]
                     r == run_command(<<"sudo teamdctl", lag_name, "clear statistics">>,
                                      m[lag_name])
                 IN IF ~prev.cleared THEN prev
                    ELSE IF r.exc
                    THEN [commands |-> Append(prev.commands, r),
                          echoed |-> Append(prev.echoed,
                                        <<"Warning: Could not clear stats for", lag_name>>),
                          cleared |-> FALSE]
                    ELSE [prev EXCEPT !.commands = Append(@, r)]
        done == loop[Cardinality(lag_keys)]
    IN [commands |-> done.commands,
        echoed |-> IF done.cleared
                   THEN Append(done.echoed, <<"Cleared stats counter for all LAGs">>)
                   ELSE done.echoed]

\* statistics(None, None): the branch for all LAGs
clear_all(d, m) ==
    LET lag_keys == {k \in DOMAIN d.stateDB : k[1] = "LAG_TABLE" /\ Len(k) > 1}
        loop[i \in 0..Cardinality(lag_keys)] ==
            IF i = 0 THEN [commands |-> <<>>, echoed |-> <<>>, cleared |-> TRUE]
            ELSE LET prev == loop[i - 1]
                     lag_key == natsorted(lag_keys)[i]
                     lag_name == lag_key[Len(lag_key)]
                     r == run_command(<<"sudo teamdctl", lag_name, "clear statistics">>,
                                      m[lag_name])
                 IN IF r.exc
                    THEN [commands |-> Append(prev.commands, r),
                          echoed |-> Append(prev.echoed,
                                        <<"Warning: Could not clear stats for", lag_name>>),
                          cleared |-> FALSE]
                    ELSE [prev EXCEPT !.commands = Append(@, r)]
        done == loop[Cardinality(lag_keys)]
    IN [commands |-> done.commands,
        echoed |-> IF done.cleared
                   THEN Append(done.echoed, <<"Cleared stats counter for all LAGs">>)
                   ELSE done.echoed]

\* m gives, for each LAG, whether teamdctl succeeds on it
statistics(d, portchannel_name, port_name, m) ==
    IF portchannel_name # None /\ port_name = None THEN
        IF ~check_portchannel_name_member_port_exists(d, portchannel_name, None)
        THEN [commands |-> <<>>,
              echoed |-> <<<<"No such portchannel interface :", portchannel_name>>>>]
        ELSE LET r == run_command(<<"sudo teamdctl", portchannel_name, "clear statistics">>,
                                  m[portchannel_name])
             IN [commands |-> <<r>>,
                 echoed |-> IF r.exc
                            THEN <<<<"Warning: Could not clear stats for", portchannel_name>>>>
                            ELSE <<<<"Cleared stats counter for LAG :", portchannel_name>>>>]
    ELSE IF portchannel_name # None /\ port_name # None THEN
        IF ~check_portchannel_name_member_port_exists(d, portchannel_name, port_name)
        THEN [commands |-> <<>>,
              echoed |-> <<<<"No such portchannel or portchannel member interface :",
                             portchannel_name, port_name>>>>]
        ELSE LET r == run_command(<<"sudo teamdctl", portchannel_name, "clear statistics port",
                                    port_name>>, m[portchannel_name])
             IN [commands |-> <<r>>,
                 echoed |-> IF r.exc
                            THEN <<<<"Warning: Could not clear stats for", portchannel_name,
                                     port_name>>>>
                            ELSE <<<<"Cleared stats counter for LAG :", portchannel_name,
                                     "LAG_MEMBER :", port_name>>>>]
    ELSE IF portchannel_name = None /\ port_name = None THEN clear_all(d, m)
    ELSE [commands |-> <<>>, echoed |-> <<>>]

\* the state store: any LAGs, PortChannel1 with or without its member
LagStores ==
    {[EmptyStores EXCEPT !.stateDB =
          [k \in {<<"LAG_TABLE", n>> : n \in K} |-> [oper_status |-> "up"]]
          @@ [k \in {<<"LAG_MEMBER_TABLE", "PortChannel1", q>> : q \in M} |-> [status |-> "enabled"]]] :
        K \in SUBSET LagNames, M \in SUBSET MemberNames}

InitClear ==
    /\ db \in LagStores
    /\ pre = db
    /\ asic_type = "broadcom"
    /\ hwsku = "Force10-S6100"
    /\ config_src_data = <<>>
    /\ init_db = InitCfg
    /\ Idle

\* one invocation of the command
invoke_statistics(portchannel_name, port_name) ==
    /\ pc = "idle"
    /\ Len(handlers) < MaxCalls
    /\ \E m \in [LagNames -> BOOLEAN] :
           LET r == statistics(db, portchannel_name, port_name, m) IN
           /\ commands' = r.commands
           /\ echoed' = r.echoed
    /\ argv' = <<portchannel_name, port_name>>
    /\ handlers' = Append(handlers, "statistics")
    /\ pre' = db
    /\ pc' = "idle"
    /\ UNCHANGED <<db, asic_type, hwsku, config_src_data, init_db, version, next_version,
                   mlnx_calls, failed, issued, commons, invocations, start_marker, faults>>

Clear_statistics_of_portchannel ==
    \E portchannel_name \in LagNames : invoke_statistics(portchannel_name, None)

Clear_statistics_of_member ==
    \E portchannel_name \in LagNames : \E port_name \in MemberNames :
        invoke_statistics(portchannel_name, port_name)

Clear_statistics_of_all ==
    invoke_statistics(None, None)

NextClear ==
    \/ Clear_statistics_of_portchannel
    \/ Clear_statistics_of_member
    \/ Clear_statistics_of_all

SpecClear == InitClear /\ [][NextClear]_vars

cleared_all == handlers # <<>> /\ argv = <<None, None>>

is_warning(line) == line[1] = "Warning: Could not clear stats for"

====
